---- MODULE Spec2Model ----
(***************************************************************************)
(* FIRST: deterministic crash-consistency testing framework.               *)
(*                                                                         *)
(* The model covers the runtime (src/src/rt.rs), the builder               *)
(* (src/src/test.rs), the Env (src/src/env.rs) and the orchestrator        *)
(* (src/src/orchestrator.rs).                                              *)
(*                                                                         *)
(* Strings are sequences of one-character strings, so that formatting,     *)
(* escaping and the hand-written JSON parser are modelled character by     *)
(* character.  An Option<T> is a sequence of length 0 (None) or 1 (Some).  *)
(***************************************************************************)
EXTENDS Integers, Sequences, FiniteSets, TLC

VARIABLES
    orch,   \* per invocation: the orchestrator process (orchestrator.rs run)
    procs,  \* per invocation: the child processes spawned so far, in order
    fs,     \* the filesystem of the host: path -> entry
    rt      \* scratch state of the CrashRecord emit/parse pipeline

vars == <<orch, procs, fs, rt>>

----------------------------------------------------------------------------
(* Characters and strings *)

Q  == "\""
BS == "\\"
NL == "\n"

Digits == <<"0", "1", "2", "3", "4", "5", "6", "7", "8", "9">>

IsDigit(c) == \E d \in 1..10 : Digits[d] = c

DigitVal(c) == (CHOOSE d \in 1..10 : Digits[d] = c) - 1

Min(S) == CHOOSE x \in S : \A y \in S : x <= y

\* usize::to_string
RECURSIVE to_string(_)
to_string(n) ==
    IF n < 10 THEN <<Digits[n + 1]>>
    ELSE to_string(n \div 10) \o <<Digits[(n % 10) + 1]>>

RECURSIVE DigitsToNat(_)
DigitsToNat(s) ==
    IF Len(s) = 0 THEN 0
    ELSE 10 * DigitsToNat(SubSeq(s, 1, Len(s) - 1)) + DigitVal(s[Len(s)])

\* str::parse::<usize>: an optional '+', then one or more decimal digits
parse_usize(s) ==
    LET body == IF Len(s) > 0 /\ s[1] = "+" THEN Tail(s) ELSE s
    IN  IF Len(body) = 0 \/ \E k \in 1..Len(body) : ~IsDigit(body[k])
        THEN <<>>
        ELSE <<DigitsToNat(body)>>

\* str::find: the 0-based index of the first occurrence of pat, as an Option
find(s, pat) ==
    LET hits == {k \in 0..(Len(s) - Len(pat)) :
                    SubSeq(s, k + 1, k + Len(pat)) = pat}
    IN  IF hits = {} THEN <<>> ELSE <<Min(hits)>>

\* s[start..] for a 0-based start
from(s, start) == SubSeq(s, start + 1, Len(s))

\* str::starts_with
starts_with(s, pat) == Len(s) >= Len(pat) /\ SubSeq(s, 1, Len(pat)) = pat

\* str::replace(ch, rep) for a single character ch
RECURSIVE replace(_, _, _)
replace(s, ch, rep) ==
    IF Len(s) = 0 THEN <<>>
    ELSE (IF s[1] = ch THEN rep ELSE <<s[1]>>) \o replace(Tail(s), ch, rep)

\* BufRead::lines: split at '\n'; a trailing unterminated line is a line too.
\* (A '\r' before the '\n' is stripped as well.)
RECURSIVE lines(_)
lines(s) ==
    IF Len(s) = 0 THEN <<>>
    ELSE LET nl == find(s, <<NL>>)
             strip(l) == IF Len(l) > 0 /\ l[Len(l)] = "\r"
                         THEN SubSeq(l, 1, Len(l) - 1) ELSE l
         IN  IF nl = <<>> THEN <<s>>
             ELSE <<strip(SubSeq(s, 1, nl[1]))>> \o lines(from(s, nl[1] + 1))

----------------------------------------------------------------------------
(* CrashInfo and the CrashRecord wire format *)

\* CrashInfo::new
CrashInfo(point_id, label) == [point_id |-> point_id, label |-> label]

UNKNOWN == <<"u", "n", "k", "n", "o", "w", "n">>
NULL    == <<"n", "u", "l", "l">>

P_EVENT == <<"{", Q, "e", "v", "e", "n", "t", Q, ":", Q, "c", "r", "a", "s", "h", Q>>
P_POINT == <<Q, "p", "o", "i", "n", "t", "_", "i", "d", Q, ":">>
P_LABEL == <<Q, "l", "a", "b", "e", "l", Q, ":", Q>>
P_SEED  == <<Q, "s", "e", "e", "d", Q, ":">>
P_WORK  == <<Q, "w", "o", "r", "k", "_", "d", "i", "r", Q, ":", Q>>

\* label.replace('\\', "\\\\").replace('"', "\\\"")
escape(s) == replace(replace(s, BS, <<BS, BS>>), Q, <<BS, Q>>)

\* The bytes emit_crash_metadata writes to stderr.  seed and work_dir are
\* Options: the values of FIRST_SEED and FIRST_WORK_DIR.
emit_crash_metadata(point_id, label, seed, work_dir) ==
    LET seed_s == IF seed = <<>> THEN NULL ELSE seed[1]
        work_s == IF work_dir = <<>> THEN UNKNOWN ELSE work_dir[1]
    IN  P_EVENT \o <<",">> \o P_POINT \o to_string(point_id) \o <<",">>
        \o P_LABEL \o escape(label) \o <<Q, ",">>
        \o P_SEED \o seed_s \o <<",">>
        \o P_WORK \o escape(work_s) \o <<Q, "}">>
        \o <<NL>>

parse_crash_json(json) ==
    LET pi == find(json, P_POINT)
        point_id ==
            IF pi = <<>> THEN <<>>
            ELSE LET start == pi[1] + 11
                     end   == find(from(json, start), <<",">>)
                 IN  IF end = <<>> THEN <<>>
                     ELSE parse_usize(SubSeq(json, start + 1, start + end[1]))
        li == find(json, P_LABEL)
        label_o ==
            IF li = <<>> THEN <<>>
            ELSE LET start == li[1] + 9
                     end   == find(from(json, start), <<Q>>)
                 IN  IF end = <<>> THEN <<>>
                     ELSE <<SubSeq(json, start + 1, start + end[1])>>
        label == IF label_o = <<>> THEN UNKNOWN ELSE label_o[1]
    IN  IF point_id = <<>> THEN <<>>
        ELSE <<CrashInfo(point_id[1], label)>>

\* parse_crash_metadata keeping the last record line that parses
RECURSIVE first_record_last_wins(_)
first_record_last_wins(ls) ==
    IF Len(ls) = 0 THEN <<>>
    ELSE LET later == first_record_last_wins(Tail(ls))
         IN  IF later # <<>> THEN later
             ELSE IF starts_with(ls[1], P_EVENT) THEN parse_crash_json(ls[1])
             ELSE <<>>

\* parse_crash_metadata over the whole content of the child's stderr pipe
RECURSIVE first_record(_)
first_record(ls) ==
    IF Len(ls) = 0 THEN <<>>
    ELSE IF starts_with(ls[1], P_EVENT) /\ parse_crash_json(ls[1]) # <<>>
         THEN parse_crash_json(ls[1])
         ELSE first_record(Tail(ls))

\* A byte that is not valid UTF-8
XFF == "xFF"

\* reader.lines().map_while(Result::ok): the lines before the first one that
\* is not valid UTF-8
RECURSIVE map_while_ok(_)
map_while_ok(ls) ==
    IF Len(ls) = 0 THEN <<>>
    ELSE IF \E n \in 1..Len(ls[1]) : ls[1][n] = XFF THEN <<>>
    ELSE <<ls[1]>> \o map_while_ok(Tail(ls))

parse_crash_metadata(stderr) == first_record(map_while_ok(lines(stderr)))

----------------------------------------------------------------------------
(* Paths and the filesystem.  A path is a string; components are separated  *)
(* by '/'.                                                                   *)

\* std::env::temp_dir()
TmpDir == <<"/", "t">>

FIRST_DIR  == <<"f", "i", "r", "s", "t">>
DEFAULT    == <<"d", "e", "f", "a", "u", "l", "t">>

\* Path::is_absolute
is_absolute(name) == Len(name) > 0 /\ name[1] = "/"

\* Path::join: an absolute argument replaces the receiver
join(p, name) ==
    IF is_absolute(name) THEN name
    ELSE IF Len(p) > 0 /\ p[Len(p)] = "/" THEN p \o name
    ELSE p \o <<"/">> \o name

\* Path::starts_with: p equals q or lies under q
starts_with_path(p, q) ==
    \/ p = q
    \/ /\ Len(p) > Len(q)
       /\ SubSeq(p, 1, Len(q)) = q
       /\ p[Len(q) + 1] = "/"

\* The proper ancestors of p below the root, and p itself
Ancestors(p) ==
    {SubSeq(p, 1, k - 1) : k \in {j \in 2..Len(p) : p[j] = "/"}} \cup {p}

Parent(p) ==
    LET cuts == {j \in 1..Len(p) : p[j] = "/"}
        last == CHOOSE j \in cuts : \A m \in cuts : m <= j
    IN  IF last = 1 THEN <<"/">> ELSE SubSeq(p, 1, last - 1)

NoTag == [inv |-> "-", target |-> 0, phase |-> "-"]

IsDir(f, p) == p = <<"/">> \/ \E e \in f : e.path = p /\ e.kind = "dir"

Exists(f, p) == p = <<"/">> \/ \E e \in f : e.path = p

\* std::fs::create_dir_all
create_dir_all(f, p) ==
    f \cup {[path |-> a, kind |-> "dir", tag |-> NoTag, data |-> <<>>] :
                a \in {b \in Ancestors(p) : ~Exists(f, b)}}

\* std::fs::remove_dir_all (errors are ignored by the callers)
remove_dir_all(f, p) == {e \in f : ~starts_with_path(e.path, p)}

\* The file p with the content data, created or replaced
write_data(f, p, tag, data) ==
    {e \in f : e.path # p}
        \cup {[path |-> p, kind |-> "file", tag |-> tag, data |-> data]}

\* std::fs::write / File::create + write_all: the file is created or replaced
\* (the content the tests write is not looked at)
write_file(f, p, tag) == write_data(f, p, tag, <<>>)

\* The content of the file p
read_file(f, p) == (CHOOSE e \in f : e.path = p).data

\* OpenOptions::new().create(true).append(true).open(p): the file is created
\* empty if it is missing
open_append(f, p, tag) == IF Exists(f, p) THEN f ELSE write_data(f, p, tag, <<>>)

\* write to a file opened in append mode
append_file(f, p, tag, data) == write_data(f, p, tag, read_file(f, p) \o data)

----------------------------------------------------------------------------
(* Runtime: src/src/rt.rs *)

\* usize::MAX, the "never crash" target (the largest integer of the checker
\* stands for 2^64 - 1)
USIZE_MAX == 2147483647

SIGKILL == 9
SIGABRT == 6
SIGINT  == 2

\* Exit code for SIGKILL (128 + 9)
SIGKILL_EXIT_CODE == 137

\* Exit code of a Rust process whose main thread panicked
PANIC_EXIT_CODE == 101

\* std::process::ExitStatus: exactly one of code and signal is Some
Exited(code)   == [code |-> <<code>>, signal |-> <<>>]
Signaled(sig)  == [code |-> <<>>, signal |-> <<sig>>]

\* The environment of a process
EnvVars(phase, target, work_dir, point_id, label, seed, keep) ==
    [FIRST_PHASE |-> phase, FIRST_CRASH_TARGET |-> target,
     FIRST_WORK_DIR |-> work_dir, FIRST_CRASH_POINT_ID |-> point_id,
     FIRST_CRASH_LABEL |-> label, FIRST_SEED |-> seed,
     FIRST_KEEP_ARTIFACTS |-> keep]

init_runtime(env) ==
    LET phase == IF env.FIRST_PHASE = <<"EXECUTION">> THEN "Execution"
                 ELSE IF env.FIRST_PHASE = <<"VERIFY">> THEN "Verify"
                 ELSE "Orchestrator"
        parsed == IF env.FIRST_CRASH_TARGET = <<>> THEN <<>>
                  ELSE parse_usize(env.FIRST_CRASH_TARGET[1])
        target_crash_point ==
            IF phase = "Execution"
            THEN (IF parsed = <<>> THEN USIZE_MAX ELSE parsed[1])
            ELSE USIZE_MAX
    IN  [phase |-> phase, target_crash_point |-> target_crash_point]

\* runtime() reading the environment at every call
runtime_uncached(p) == init_runtime(p.env)

\* RUNTIME.get_or_init(init_runtime)
runtime(p) == IF p.config = <<>> THEN init_runtime(p.env) ELSE p.config[1]

\* A process of the test binary.  code is the rest of its program; config is
\* the OnceLock RUNTIME, counter is CRASH_COUNTER, work_dir is the Env.  calls,
\* observed, returned, hit, done, closure, info and paths record what the
\* process did: the crash_point calls made, the current_id each call in
\* Execution phase computed, the calls that returned, the call that crashed,
\* the steps executed, the closure invoked, the CrashInfo the verifier got
\* and the results of Env::path.  wal is the Wal the closure has opened.  env
\* is the environment of the process as it is now, env0 as it was at its
\* start.
Process(env, code) ==
    [env |-> env, env0 |-> env, code |-> code, config |-> <<>>, counter |-> 0,
     pc |-> "run", stderr |-> <<>>, status |-> <<>>, work_dir |-> <<>>,
     calls |-> 0, observed |-> <<>>, returned |-> 0, hit |-> <<>>,
     done |-> <<>>, closure |-> "none", info |-> <<>>, paths |-> {},
     wal |-> <<>>]

\* crash_point comparing the value fetch_add returned with the target
crash_point_off_by_one(p, label) ==
    LET config == runtime(p)
        p1 == [p EXCEPT !.config = <<config>>, !.calls = @ + 1]
    IN  IF config.phase # "Execution" THEN p1
        ELSE LET previous   == p1.counter
                 current_id == previous + 1
                 target     == config.target_crash_point
                 p2 == [p1 EXCEPT !.counter = previous + 1,
                                  !.observed = Append(@, current_id)]
             IN  IF previous = target
                 THEN [p2 EXCEPT !.pc = "emit",
                                 !.hit = <<CrashInfo(current_id, label)>>]
                 ELSE p2

\* crash_point with a 0-indexed current_id
crash_point_zero_indexed(p, label) ==
    LET config == runtime(p)
        p1 == [p EXCEPT !.config = <<config>>, !.calls = @ + 1]
    IN  IF config.phase # "Execution" THEN p1
        ELSE LET previous   == p1.counter
                 current_id == previous
                 target     == config.target_crash_point
                 p2 == [p1 EXCEPT !.counter = previous + 1,
                                  !.observed = Append(@, current_id)]
             IN  IF current_id = target
                 THEN [p2 EXCEPT !.pc = "emit",
                                 !.hit = <<CrashInfo(current_id, label)>>]
                 ELSE p2

\* crash_point without the early return outside the Execution phase
crash_point_no_phase_check(p, label) ==
    LET config == runtime(p)
        p1 == [p EXCEPT !.config = <<config>>, !.calls = @ + 1]
        previous   == p1.counter
        current_id == previous + 1
        target     == config.target_crash_point
        p2 == [p1 EXCEPT !.counter = previous + 1,
                         !.observed = Append(@, current_id)]
    IN  IF current_id = target
        THEN [p2 EXCEPT !.pc = "emit",
                        !.hit = <<CrashInfo(current_id, label)>>]
        ELSE p2

\* crash_point with a target that moves by one when FIRST_SEED is set
crash_point_seeded(p, label) ==
    LET config == runtime(p)
        p1 == [p EXCEPT !.config = <<config>>, !.calls = @ + 1]
    IN  IF config.phase # "Execution" THEN p1
        ELSE LET previous   == p1.counter
                 current_id == previous + 1
                 target     == config.target_crash_point
                                + (IF p.env.FIRST_SEED = <<>> THEN 0 ELSE 1)
                 p2 == [p1 EXCEPT !.counter = previous + 1,
                                  !.observed = Append(@, current_id)]
             IN  IF current_id = target
                 THEN [p2 EXCEPT !.pc = "emit",
                                 !.hit = <<CrashInfo(current_id, label)>>]
                 ELSE p2

\* crash_point crashing at every call from the target on
crash_point_at_or_after_target(p, label) ==
    LET config == runtime(p)
        p1 == [p EXCEPT !.config = <<config>>, !.calls = @ + 1]
    IN  IF config.phase # "Execution" THEN p1
        ELSE LET previous   == p1.counter
                 current_id == previous + 1
                 target     == config.target_crash_point
                 p2 == [p1 EXCEPT !.counter = previous + 1,
                                  !.observed = Append(@, current_id)]
             IN  IF current_id >= target
                 THEN [p2 EXCEPT !.pc = "emit",
                                 !.hit = <<CrashInfo(current_id, label)>>]
                 ELSE p2

\* crash_point(label) up to the call of emit_crash_metadata; the caller
\* continues with the next statement when pc is still "run"
crash_point(p, label) ==
    LET config == runtime(p)
        p1 == [p EXCEPT !.config = <<config>>, !.calls = @ + 1]
    IN  IF config.phase # "Execution" THEN p1
        ELSE LET previous   == p1.counter
                 current_id == previous + 1
                 target     == config.target_crash_point
                 p2 == [p1 EXCEPT !.counter = previous + 1,
                                  !.observed = Append(@, current_id)]
             IN  IF current_id = target
                 THEN [p2 EXCEPT !.pc = "emit",
                                 !.hit = <<CrashInfo(current_id, label)>>]
                 ELSE p2

\* parse_crash_info (src/src/test.rs)
parse_crash_info(env) ==
    LET id == IF env.FIRST_CRASH_POINT_ID = <<>> THEN <<>>
              ELSE parse_usize(env.FIRST_CRASH_POINT_ID[1])
        point_id == IF id = <<>> THEN 0 ELSE id[1]
        label == IF env.FIRST_CRASH_LABEL = <<>> THEN UNKNOWN
                 ELSE env.FIRST_CRASH_LABEL[1]
    IN  CrashInfo(point_id, label)

\* Env::path without the assertion
path_no_assert(work_dir, name) == <<join(work_dir, name)>>

\* Env::path; None when the assertion fails
path(work_dir, name) ==
    IF is_absolute(name) THEN <<>> ELSE <<join(work_dir, name)>>

----------------------------------------------------------------------------
(* The test binary: a test function that calls crash_point some number of   *)
(* times, then first::test().run(run_fn).verify(verify_fn).execute().       *)
(* A closure is a sequence of steps.                                        *)

Step(op, arg, id, st) == [op |-> op, arg |-> arg, id |-> id, st |-> st]

CP(label)     == Step("crash_point", label, 0, 0)   \* first::crash_point(label)
WRITE(name)   == Step("write", name, 0, 0)          \* fs::write(env.path(name), ..).unwrap()
DIE(st)       == Step("die", <<>>, 0, st)           \* exit code st >= 0, signal -st
CHECK(id, st) == Step("check", <<>>, id, st)        \* die unless info.point_id # id
EXECUTE       == Step("execute", <<>>, 0, 0)        \* TestBuilder::execute
EPRINT(text)  == Step("eprint", text, 0, 0)         \* eprint!("{}", text)
SET_PHASE(n)  == Step("set_phase", <<>>, n, 0)      \* env::set_var("FIRST_PHASE", PhaseValues[n])
SET_TARGET(v) == Step("set_target", v, 0, 0)        \* env::set_var("FIRST_CRASH_TARGET", v)
REMOVE_TARGET == Step("remove_target", <<>>, 0, 0)  \* env::remove_var("FIRST_CRASH_TARGET")

PhaseValues == <<"EXECUTION", "VERIFY", "x">>

\* The environment after the step c, for the steps that change it
SetVar(env, c) ==
    IF c.op = "set_phase" THEN [env EXCEPT !.FIRST_PHASE = <<PhaseValues[c.id]>>]
    ELSE IF c.op = "set_target" THEN [env EXCEPT !.FIRST_CRASH_TARGET = <<c.arg>>]
    ELSE IF c.op = "remove_target" THEN [env EXCEPT !.FIRST_CRASH_TARGET = <<>>]
    ELSE env

ExitOf(st) == IF st >= 0 THEN Exited(st) ELSE Signaled(0 - st)

Invocations == {"A", "B"}

\* The label of the n-th crash_point step of a sequence of steps
RECURSIVE NthLabel(_, _)
NthLabel(code, n) ==
    IF Len(code) = 0 THEN <<>>
    ELSE IF code[1].op = "crash_point"
         THEN (IF n = 1 THEN <<code[1].arg>> ELSE NthLabel(Tail(code), n - 1))
         ELSE NthLabel(Tail(code), n)

NumCp(code) == Cardinality({k \in 1..Len(code) : code[k].op = "crash_point"})

----------------------------------------------------------------------------
(* Orchestrator state: src/src/orchestrator.rs run *)

PreLabel == <<"p">>

OrchRecord(pc, pid, pre, run_fn, verify_fn) ==
    [pc |-> pc, pid |-> pid, pre |-> pre, run_fn |-> run_fn,
     verify_fn |-> verify_fn, target |-> 0, run_uuid |-> <<>>,
     base_dir |-> <<>>, work_dir |-> <<>>, crash_info |-> <<>>,
     log |-> <<>>, trace |-> <<>>]

OrchOff == OrchRecord("off", 0, 0, <<>>, <<>>)

\* The program every process of invocation i runs
TestFn(o) == [k \in 1..o.pre |-> CP(PreLabel)] \o <<EXECUTE>>

\* base_dir shared by every invocation: temp_dir().join("first")
base_dir_shared(pid, run_uuid) == join(TmpDir, FIRST_DIR)

\* base_dir = temp_dir().join("first").join(format!("first-{}-{}", pid, run_uuid))
base_dir(pid, run_uuid) ==
    join(join(TmpDir, FIRST_DIR),
         FIRST_DIR \o <<"-">> \o to_string(pid) \o <<"-">> \o run_uuid)

\* work_dir = base_dir.join(format!("run_{}", target))
leaf(base, target) == join(base, <<"r", "u", "n", "_">> \o to_string(target))

\* ChildResult
Success      == [tag |-> "Success", info |-> <<>>, code |-> 0]
Crashed(inf) == [tag |-> "Crashed", info |-> <<inf>>, code |-> 0]
Failed(code) == [tag |-> "Failed", info |-> <<>>, code |-> code]

\* interpret_exit_status taking death by any signal for a crash
interpret_exit_status_any_signal(status, crash_info) ==
    IF status.code = <<0>> THEN Success
    ELSE LET code == IF status.code = <<>> THEN -1 ELSE status.code[1]
             info == IF crash_info = <<>> THEN CrashInfo(0, UNKNOWN)
                     ELSE crash_info[1]
         IN  IF code = SIGKILL_EXIT_CODE THEN Crashed(info)
             ELSE IF status.signal # <<>> THEN Crashed(info)
             ELSE Failed(code)

\* interpret_exit_status without the early return for status.success()
interpret_exit_status_no_success(status, crash_info) ==
    LET code == IF status.code = <<>> THEN -1 ELSE status.code[1]
        info == IF crash_info = <<>> THEN CrashInfo(0, UNKNOWN)
                ELSE crash_info[1]
    IN  IF code = SIGKILL_EXIT_CODE THEN Crashed(info)
        ELSE IF status.signal = <<SIGKILL>> THEN Crashed(info)
        ELSE Failed(code)

\* interpret_exit_status taking a kill without a CrashRecord for a failure
interpret_exit_status_requires_record(status, crash_info) ==
    IF status.code = <<0>> THEN Success
    ELSE LET code == IF status.code = <<>> THEN -1 ELSE status.code[1]
         IN  IF crash_info = <<>> THEN Failed(code)
             ELSE IF code = SIGKILL_EXIT_CODE THEN Crashed(crash_info[1])
             ELSE IF status.signal = <<SIGKILL>> THEN Crashed(crash_info[1])
             ELSE Failed(code)

interpret_exit_status(status, crash_info) ==
    IF status.code = <<0>> THEN Success
    ELSE LET code == IF status.code = <<>> THEN -1 ELSE status.code[1]
             info == IF crash_info = <<>> THEN CrashInfo(0, UNKNOWN)
                     ELSE crash_info[1]
         IN  IF code = SIGKILL_EXIT_CODE THEN Crashed(info)
             ELSE IF status.signal = <<SIGKILL>> THEN Crashed(info)
             ELSE Failed(code)

\* extract_test_name: the name of the thread the test function runs on, when
\* the binary is run without a filter argument
TestName == <<<<"t">>>>

\* The pieces of the two format strings of the reproduction command
R_EXECUTION ==
    <<" ", " ", "F", "I", "R", "S", "T", "_", "P", "H", "A", "S", "E", "=",
      "E", "X", "E", "C", "U", "T", "I", "O", "N", " ", "F", "I", "R", "S",
      "T", "_", "C", "R", "A", "S", "H", "_", "T", "A", "R", "G", "E", "T",
      "=">>
R_VERIFY ==
    <<" ", " ", "F", "I", "R", "S", "T", "_", "P", "H", "A", "S", "E", "=",
      "V", "E", "R", "I", "F", "Y", " ", "F", "I", "R", "S", "T", "_", "C",
      "R", "A", "S", "H", "_", "T", "A", "R", "G", "E", "T", "=">>
R_WORK_DIR ==
    <<" ", "F", "I", "R", "S", "T", "_", "W", "O", "R", "K", "_", "D", "I",
      "R", "=">>
R_POINT_ID ==
    <<" ", "F", "I", "R", "S", "T", "_", "C", "R", "A", "S", "H", "_", "P",
      "O", "I", "N", "T", "_", "I", "D", "=">>
R_LABEL ==
    <<" ", "F", "I", "R", "S", "T", "_", "C", "R", "A", "S", "H", "_", "L",
      "A", "B", "E", "L", "=", Q>>
R_CARGO ==
    <<" ", "c", "a", "r", "g", "o", " ", "t", "e", "s", "t">>
R_EXACT ==
    <<" ", "-", "-", " ", "-", "-", "e", "x", "a", "c", "t">>

\* test_name.as_ref().map(|n| format!(" {}", n)).unwrap_or_default()
test_suffix(test_name) == IF test_name = <<>> THEN <<>> ELSE <<" ">> \o test_name[1]

\* The "to reproduce" line run prints after an Execution failure
reproduce_execution(target, base, test_name) ==
    R_EXECUTION \o to_string(target) \o R_WORK_DIR \o base
        \o R_CARGO \o test_suffix(test_name) \o R_EXACT

\* The "to reproduce" line of print_failure_info
reproduce_verify(target, base, crash_info, test_name) ==
    R_VERIFY \o to_string(target) \o R_WORK_DIR \o base
        \o R_POINT_ID \o to_string(crash_info.point_id)
        \o R_LABEL \o crash_info.label \o <<Q>>
        \o R_CARGO \o test_suffix(test_name) \o R_EXACT

\* The failure report with the leaf directory in the reproduction command
LogEntry_reproduces_leaf(kind, o, n, info) ==
    [kind |-> kind, target |-> o.target, n |-> n, see |-> o.work_dir,
     FIRST_WORK_DIR |-> o.work_dir, point_id |-> info.point_id,
     label |-> info.label,
     cmd |-> IF kind = "exec_failed"
             THEN reproduce_execution(o.target, o.work_dir, TestName)
             ELSE IF kind = "verify_failed"
             THEN reproduce_verify(o.target, o.work_dir, info, TestName)
             ELSE <<>>]

\* What the orchestrator prints (eprintln!) and the events of its loop; cmd
\* is the reproduction command of a failure report
LogEntry(kind, o, n, info) ==
    [kind |-> kind, target |-> o.target, n |-> n, see |-> o.work_dir,
     FIRST_WORK_DIR |-> o.base_dir, point_id |-> info.point_id,
     label |-> info.label,
     cmd |-> IF kind = "exec_failed"
             THEN reproduce_execution(o.target, o.base_dir, TestName)
             ELSE IF kind = "verify_failed"
             THEN reproduce_verify(o.target, o.base_dir, info, TestName)
             ELSE <<>>]

\* rec is what parse_crash_metadata returned, for the events of a read of
\* the child's stderr
EventRec(ev, o, res, rec) ==
    [ev |-> ev, target |-> o.target, res |-> res, rec |-> rec]

Event(ev, o, res) == EventRec(ev, o, res, <<>>)

NoInfo == CrashInfo(0, <<>>)

\* The environment spawn_child gives the Execution child
ExecEnv(parent, target, work_dir) ==
    [parent EXCEPT !.FIRST_PHASE = <<"EXECUTION">>,
                   !.FIRST_CRASH_TARGET = <<to_string(target)>>,
                   !.FIRST_WORK_DIR = <<work_dir>>]

\* The environment spawn_child_with_crash_info gives the Verify child
VerifyEnv(parent, target, work_dir, crash_info) ==
    [parent EXCEPT !.FIRST_PHASE = <<"VERIFY">>,
                   !.FIRST_CRASH_TARGET = <<to_string(target)>>,
                   !.FIRST_WORK_DIR = <<work_dir>>,
                   !.FIRST_CRASH_POINT_ID = <<to_string(crash_info.point_id)>>,
                   !.FIRST_CRASH_LABEL = <<crash_info.label>>]

\* The directory spawn_child and spawn_child_with_crash_info are called with
\* ("We pass `base_dir` as FIRST_WORK_DIR, not `work_dir`")
ChildWorkDir(o) == o.base_dir

----------------------------------------------------------------------------
(* Steps of a process of the test binary *)

Running(i, k) ==
    /\ k <= Len(procs[i])
    /\ procs[i][k].status = <<>>
    /\ procs[i][k].pc = "run"

NextStep(i, k, op) ==
    /\ Running(i, k)
    /\ Len(procs[i][k].code) > 0
    /\ Head(procs[i][k].code).op = op

\* The process with its next step consumed
Advance(p) == [p EXCEPT !.code = Tail(@), !.done = Append(@, Head(p.code))]

\* A call of crash_point(label) by the test function or a closure
DoCrashPoint(i, k) ==
    /\ NextStep(i, k, "crash_point")
    /\ LET p == procs[i][k]
           q == crash_point(Advance(p), Head(p.code).arg)
       IN  procs' = [procs EXCEPT ![i][k] =
                        IF q.pc = "run" THEN [q EXCEPT !.returned = @ + 1] ELSE q]
    /\ UNCHANGED <<orch, fs, rt>>

\* emit_crash_metadata leaving the record in a buffer the kill discards
Emit_not_flushed(i, k) ==
    /\ k <= Len(procs[i])
    /\ procs[i][k].status = <<>>
    /\ procs[i][k].pc = "emit"
    /\ procs' = [procs EXCEPT ![i][k].pc = "kill"]
    /\ UNCHANGED <<orch, fs, rt>>

\* emit_crash_metadata(current_id, label): write the record and '\n' to stderr
Emit(i, k) ==
    /\ k <= Len(procs[i])
    /\ procs[i][k].status = <<>>
    /\ procs[i][k].pc = "emit"
    /\ LET p == procs[i][k]
       IN  procs' = [procs EXCEPT ![i][k] =
                [p EXCEPT !.pc = "kill",
                          !.stderr = @ \o emit_crash_metadata(
                                p.hit[1].point_id, p.hit[1].label,
                                p.env.FIRST_SEED, p.env.FIRST_WORK_DIR)]]
    /\ UNCHANGED <<orch, fs, rt>>

\* trigger_crash: kill(getpid(), SIGKILL), or exit(137) should the kill fail
TriggerCrash(i, k) ==
    /\ k <= Len(procs[i])
    /\ procs[i][k].status = <<>>
    /\ procs[i][k].pc = "kill"
    /\ \E st \in {Signaled(SIGKILL), Exited(137)} :
          procs' = [procs EXCEPT ![i][k].status = <<st>>, ![i][k].pc = "dead"]
    /\ UNCHANGED <<orch, fs, rt>>

\* fs::write(env.path(name), ..).unwrap(): a panic when Env::path rejects the
\* name or the parent directory is missing
DoWrite(i, k) ==
    /\ NextStep(i, k, "write")
    /\ LET p   == procs[i][k]
           pth == path(p.work_dir[1], Head(p.code).arg)
           tag == [inv |-> i, target |-> orch[i].target, phase |-> runtime(p).phase]
       IN  IF pth = <<>>
           THEN /\ procs' = [procs EXCEPT ![i][k] =
                        [Advance(p) EXCEPT !.status = <<Exited(PANIC_EXIT_CODE)>>]]
                /\ fs' = fs
           ELSE IF ~IsDir(fs, Parent(pth[1]))
           THEN /\ procs' = [procs EXCEPT ![i][k] =
                        [Advance(p) EXCEPT !.status = <<Exited(PANIC_EXIT_CODE)>>,
                                           !.paths = @ \cup {pth[1]}]]
                /\ fs' = fs
           ELSE /\ procs' = [procs EXCEPT ![i][k] =
                        [Advance(p) EXCEPT !.paths = @ \cup {pth[1]}]]
                /\ fs' = write_file(fs, pth[1], tag)
    /\ UNCHANGED <<orch, rt>>

\* The closure writes text to the stderr of the process (the pipe the
\* orchestrator reads when the process is an Execution child)
DoEprint(i, k) ==
    /\ NextStep(i, k, "eprint")
    /\ LET p == procs[i][k]
       IN  procs' = [procs EXCEPT ![i][k] =
                        [Advance(p) EXCEPT !.stderr = @ \o Head(p.code).arg]]
    /\ UNCHANGED <<orch, fs, rt>>

\* The process changes its own environment: std::env::set_var, remove_var
DoSetVar(i, k) ==
    /\ \E op \in {"set_phase", "set_target", "remove_target"} : NextStep(i, k, op)
    /\ LET p == procs[i][k]
       IN  procs' = [procs EXCEPT ![i][k] =
                        [Advance(p) EXCEPT !.env = SetVar(@, Head(p.code))]]
    /\ UNCHANGED <<orch, fs, rt>>

\* The closure panics, exits or is killed
DoDie(i, k) ==
    /\ NextStep(i, k, "die")
    /\ LET p == procs[i][k]
       IN  procs' = [procs EXCEPT ![i][k] =
                        [Advance(p) EXCEPT !.status = <<ExitOf(Head(p.code).st)>>]]
    /\ UNCHANGED <<orch, fs, rt>>

\* The verifier inspects the CrashInfo: if info.point_id == id { die }
DoCheck(i, k) ==
    /\ NextStep(i, k, "check")
    /\ LET p == procs[i][k]
           c == Head(p.code)
       IN  procs' = [procs EXCEPT ![i][k] =
                        IF p.info # <<>> /\ p.info[1].point_id = c.id
                        THEN [Advance(p) EXCEPT !.status = <<ExitOf(c.st)>>]
                        ELSE Advance(p)]
    /\ UNCHANGED <<orch, fs, rt>>

\* TestBuilder::execute with the closures of the two child phases exchanged
DoExecute_swapped(i, k) ==
    /\ NextStep(i, k, "execute")
    /\ LET p      == procs[i][k]
           config == runtime(p)
           work_dir == IF p.env.FIRST_WORK_DIR # <<>> THEN p.env.FIRST_WORK_DIR[1]
                       ELSE join(join(TmpDir, FIRST_DIR), DEFAULT)
           p1     == [Advance(p) EXCEPT !.config = <<config>>]
       IN  CASE config.phase = "Orchestrator" ->
                  /\ procs' = [procs EXCEPT ![i][k] = [p1 EXCEPT !.pc = "orchestrator"]]
                  /\ orch' = [orch EXCEPT ![i].pc = "init"]
             [] config.phase = "Verify" ->
                  /\ procs' = [procs EXCEPT ![i][k] =
                        [p1 EXCEPT !.work_dir = <<work_dir>>, !.closure = "run",
                                   !.code = orch[i].run_fn \o @]]
                  /\ orch' = orch
             [] config.phase = "Execution" ->
                  /\ procs' = [procs EXCEPT ![i][k] =
                        [p1 EXCEPT !.work_dir = <<work_dir>>, !.closure = "verify",
                                   !.info = <<parse_crash_info(p.env)>>,
                                   !.code = orch[i].verify_fn \o @]]
                  /\ orch' = orch
    /\ UNCHANGED <<fs, rt>>

\* execute() starting the count of crash points again for its own workload
DoExecute_resets_counter(i, k) ==
    /\ NextStep(i, k, "execute")
    /\ LET p      == procs[i][k]
           config == runtime(p)
           work_dir == IF p.env.FIRST_WORK_DIR # <<>> THEN p.env.FIRST_WORK_DIR[1]
                       ELSE join(join(TmpDir, FIRST_DIR), DEFAULT)
           p1     == [Advance(p) EXCEPT !.config = <<config>>, !.counter = 0]
       IN  CASE config.phase = "Orchestrator" ->
                  /\ procs' = [procs EXCEPT ![i][k] = [p1 EXCEPT !.pc = "orchestrator"]]
                  /\ orch' = [orch EXCEPT ![i].pc = "init"]
             [] config.phase = "Execution" ->
                  /\ procs' = [procs EXCEPT ![i][k] =
                        [p1 EXCEPT !.work_dir = <<work_dir>>, !.closure = "run",
                                   !.code = orch[i].run_fn \o @]]
                  /\ orch' = orch
             [] config.phase = "Verify" ->
                  /\ procs' = [procs EXCEPT ![i][k] =
                        [p1 EXCEPT !.work_dir = <<work_dir>>, !.closure = "verify",
                                   !.info = <<parse_crash_info(p.env)>>,
                                   !.code = orch[i].verify_fn \o @]]
                  /\ orch' = orch
    /\ UNCHANGED <<fs, rt>>

\* TestBuilder::execute: phase dispatch
DoExecute(i, k) ==
    /\ NextStep(i, k, "execute")
    /\ LET p      == procs[i][k]
           config == runtime(p)
           work_dir == IF p.env.FIRST_WORK_DIR # <<>> THEN p.env.FIRST_WORK_DIR[1]
                       ELSE join(join(TmpDir, FIRST_DIR), DEFAULT)
           p1     == [Advance(p) EXCEPT !.config = <<config>>]
       IN  CASE config.phase = "Orchestrator" ->
                  /\ procs' = [procs EXCEPT ![i][k] = [p1 EXCEPT !.pc = "orchestrator"]]
                  /\ orch' = [orch EXCEPT ![i].pc = "init"]
             [] config.phase = "Execution" ->
                  /\ procs' = [procs EXCEPT ![i][k] =
                        [p1 EXCEPT !.work_dir = <<work_dir>>, !.closure = "run",
                                   !.code = orch[i].run_fn \o @]]
                  /\ orch' = orch
             [] config.phase = "Verify" ->
                  /\ procs' = [procs EXCEPT ![i][k] =
                        [p1 EXCEPT !.work_dir = <<work_dir>>, !.closure = "verify",
                                   !.info = <<parse_crash_info(p.env)>>,
                                   !.code = orch[i].verify_fn \o @]]
                  /\ orch' = orch
    /\ UNCHANGED <<fs, rt>>

\* The test function returns: the process exits with status 0
DoReturn(i, k) ==
    /\ Running(i, k)
    /\ procs[i][k].code = <<>>
    /\ procs' = [procs EXCEPT ![i][k].status = <<Exited(0)>>]
    /\ UNCHANGED <<orch, fs, rt>>

----------------------------------------------------------------------------
(* Steps of the orchestrator loop *)

MaxTarget == 4

\* The crash_point calls of the reference WAL workload: two in begin, one in
\* each of the three puts, two in commit
WalPoints == 7

\* The loop of run has no upper limit on target.  Here it stops after
\* MaxTarget, or after the target that follows the last crash point of the
\* test if that is later.
TargetCap(o) ==
    LET K == o.pre + NumCp(o.run_fn)
    IN  IF K + 1 > MaxTarget THEN K + 1 ELSE MaxTarget

Uuids == {<<"a", "-", "1">>, <<"b", "-", "1">>}

\* std::process::exit(1) in the orchestrator process
Exit1(ps, i) == [ps EXCEPT ![i][1].status = <<Exited(1)>>]

\* run: current_exe, extract_test_name, target = 1, run_uuid, pid, base_dir
RunInit(i) ==
    /\ orch[i].pc = "init"
    /\ \/ \E u \in Uuids :
            /\ \A j \in Invocations \ {i} :
                   orch[j].run_uuid # <<>> =>
                       <<orch[j].pid, orch[j].run_uuid[1]>> # <<orch[i].pid, u>>
            /\ orch' = [orch EXCEPT ![i].pc = "create", ![i].target = 1,
                                    ![i].run_uuid = <<u>>,
                                    ![i].base_dir = base_dir(orch[i].pid, u)]
            /\ procs' = procs
       \/ /\ orch' = [orch EXCEPT ![i].pc = "exit1",
                        ![i].trace = Append(@, Event("current_exe", orch[i], "err"))]
          /\ procs' = Exit1(procs, i)
    /\ UNCHANGED <<fs, rt>>

\* Top of the loop: work_dir = base_dir/run_<target>; create_dir_all(&work_dir)
CreateLeaf(i) ==
    /\ orch[i].pc = "create"
    /\ orch[i].target <= TargetCap(orch[i])
    /\ LET work_dir == leaf(orch[i].base_dir, orch[i].target)
           o == [orch[i] EXCEPT !.work_dir = work_dir]
       IN  \/ /\ orch' = [orch EXCEPT ![i] = [o EXCEPT !.pc = "spawn_exec",
                                !.trace = Append(@, Event("create", o, "ok"))]]
              /\ fs' = create_dir_all(fs, work_dir)
              /\ procs' = procs
           \/ /\ orch' = [orch EXCEPT ![i] = [o EXCEPT !.pc = "exit1",
                                !.trace = Append(@, Event("create", o, "err"))]]
              /\ fs' = fs
              /\ procs' = Exit1(procs, i)
    /\ rt' = rt

\* The match on exec_result reporting target instead of target - 1
MatchExec_reports_target(i, o, ps, result) ==
    CASE result.tag = "Crashed" ->
            /\ orch' = [orch EXCEPT ![i] = [o EXCEPT !.pc = "spawn_verify",
                                                     !.crash_info = result.info]]
            /\ procs' = ps
            /\ fs' = fs
      [] result.tag = "Success" ->
            /\ orch' = [orch EXCEPT ![i] = [o EXCEPT !.pc = "returned",
                            !.log = Append(@, LogEntry("all_passed", o, o.target, NoInfo))]]
            /\ procs' = [ps EXCEPT ![i][1].pc = "run"]
            /\ fs' = remove_dir_all(fs, o.work_dir)
      [] result.tag = "Failed" ->
            /\ orch' = [orch EXCEPT ![i] = [o EXCEPT !.pc = "exit1",
                            !.log = Append(@, LogEntry("exec_failed", o, result.code, NoInfo))]]
            /\ procs' = Exit1(ps, i)
            /\ fs' = fs

\* The match on exec_result going on to the next target after Failed
MatchExec_failed_continues(i, o, ps, result) ==
    CASE result.tag = "Crashed" ->
            /\ orch' = [orch EXCEPT ![i] = [o EXCEPT !.pc = "spawn_verify",
                                                     !.crash_info = result.info]]
            /\ procs' = ps
            /\ fs' = fs
      [] result.tag = "Success" ->
            /\ orch' = [orch EXCEPT ![i] = [o EXCEPT !.pc = "returned",
                            !.log = Append(@, LogEntry("all_passed", o, o.target - 1, NoInfo))]]
            /\ procs' = [ps EXCEPT ![i][1].pc = "run"]
            /\ fs' = remove_dir_all(fs, o.work_dir)
      [] result.tag = "Failed" ->
            /\ orch' = [orch EXCEPT ![i] = [o EXCEPT !.pc = "create",
                            !.target = @ + 1,
                            !.log = Append(@, LogEntry("exec_failed", o, result.code, NoInfo))]]
            /\ procs' = ps
            /\ fs' = fs

\* The match on exec_result keeping the last leaf when FIRST_KEEP_ARTIFACTS
\* is set
MatchExec_honours_keep(i, o, ps, result) ==
    CASE result.tag = "Crashed" ->
            /\ orch' = [orch EXCEPT ![i] = [o EXCEPT !.pc = "spawn_verify",
                                                     !.crash_info = result.info]]
            /\ procs' = ps
            /\ fs' = fs
      [] result.tag = "Success" ->
            /\ orch' = [orch EXCEPT ![i] = [o EXCEPT !.pc = "returned",
                            !.log = Append(@, LogEntry("all_passed", o, o.target - 1, NoInfo))]]
            /\ procs' = [ps EXCEPT ![i][1].pc = "run"]
            /\ fs' = IF ps[i][1].env.FIRST_KEEP_ARTIFACTS = <<>>
                     THEN remove_dir_all(fs, o.work_dir) ELSE fs
      [] result.tag = "Failed" ->
            /\ orch' = [orch EXCEPT ![i] = [o EXCEPT !.pc = "exit1",
                            !.log = Append(@, LogEntry("exec_failed", o, result.code, NoInfo))]]
            /\ procs' = Exit1(ps, i)
            /\ fs' = fs

\* match exec_result { Crashed, Success, Failed }; o and ps are the
\* orchestrator and the processes as the call of spawn_child left them
MatchExec(i, o, ps, result) ==
    CASE result.tag = "Crashed" ->
            /\ orch' = [orch EXCEPT ![i] = [o EXCEPT !.pc = "spawn_verify",
                                                     !.crash_info = result.info]]
            /\ procs' = ps
            /\ fs' = fs
      [] result.tag = "Success" ->
            /\ orch' = [orch EXCEPT ![i] = [o EXCEPT !.pc = "returned",
                            !.log = Append(@, LogEntry("all_passed", o, o.target - 1, NoInfo))]]
            /\ procs' = [ps EXCEPT ![i][1].pc = "run"]
            /\ fs' = remove_dir_all(fs, o.work_dir)
      [] result.tag = "Failed" ->
            /\ orch' = [orch EXCEPT ![i] = [o EXCEPT !.pc = "exit1",
                            !.log = Append(@, LogEntry("exec_failed", o, result.code, NoInfo))]]
            /\ procs' = Exit1(ps, i)
            /\ fs' = fs

\* spawn_child(.., "EXECUTION", target, &base_dir) up to cmd.spawn()
SpawnExec(i) ==
    /\ orch[i].pc = "spawn_exec"
    /\ LET o == orch[i]
           child == Process(ExecEnv(procs[i][1].env, o.target, ChildWorkDir(o)), TestFn(o))
       IN  \/ /\ orch' = [orch EXCEPT ![i] = [o EXCEPT !.pc = "wait_exec",
                                !.trace = Append(@, Event("spawn_exec", o, "ok"))]]
              /\ procs' = [procs EXCEPT ![i] = Append(@, child)]
              /\ fs' = fs
           \/ MatchExec(i, [o EXCEPT !.trace = Append(@, Event("spawn_exec", o, "err"))],
                        procs, Failed(1))
    /\ rt' = rt

\* spawn_child going on to the match without waiting for the child to exit
WaitExec_does_not_wait(i) ==
    /\ orch[i].pc = "wait_exec"
    /\ LET o == orch[i]
           child == procs[i][Len(procs[i])]
           crash_info == parse_crash_metadata(child.stderr)
       IN  MatchExec(i, [o EXCEPT !.trace =
                            Append(@, EventRec("wait_exec", o, "ok", crash_info))],
                     procs,
                     IF child.status = <<>> THEN Crashed(CrashInfo(0, UNKNOWN))
                     ELSE interpret_exit_status(child.status[1], crash_info))
    /\ rt' = rt

\* spawn_child after cmd.spawn(): read the child's stderr to its end, wait
\* for the child, interpret the exit status; then the match in run
WaitExec(i) ==
    /\ orch[i].pc = "wait_exec"
    /\ LET o == orch[i]
           child == procs[i][Len(procs[i])]
           crash_info == parse_crash_metadata(child.stderr)
       IN  /\ child.status # <<>>
           /\ \/ MatchExec(i, [o EXCEPT !.trace =
                                    Append(@, EventRec("wait_exec", o, "ok", crash_info))],
                           procs, interpret_exit_status(child.status[1], crash_info))
              \/ MatchExec(i, [o EXCEPT !.trace =
                                    Append(@, EventRec("wait_exec", o, "err", crash_info))],
                           procs, Failed(1))
    /\ rt' = rt

\* The match on verify_result taking every result for Success
MatchVerify_ignores_failure(i, o, ps, result) ==
    /\ orch' = [orch EXCEPT ![i] = [o EXCEPT !.pc = "create",
                    !.target = @ + 1,
                    !.log = Append(@, LogEntry("ok", o, o.target, o.crash_info[1]))]]
    /\ procs' = ps
    /\ fs' = IF ps[i][1].env.FIRST_KEEP_ARTIFACTS = <<>>
             THEN remove_dir_all(fs, o.work_dir) ELSE fs

\* The match on verify_result trying the same target again after a failure
MatchVerify_retries(i, o, ps, result) ==
    CASE result.tag = "Success" ->
            /\ orch' = [orch EXCEPT ![i] = [o EXCEPT !.pc = "create",
                            !.target = @ + 1,
                            !.log = Append(@, LogEntry("ok", o, o.target, o.crash_info[1]))]]
            /\ procs' = ps
            /\ fs' = IF ps[i][1].env.FIRST_KEEP_ARTIFACTS = <<>>
                     THEN remove_dir_all(fs, o.work_dir) ELSE fs
      [] OTHER ->
            /\ orch' = [orch EXCEPT ![i] = [o EXCEPT !.pc = "spawn_exec",
                            !.log = Append(@, LogEntry("verify_failed", o, result.code, o.crash_info[1]))]]
            /\ procs' = ps
            /\ fs' = fs

\* The match on verify_result removing the leaf whatever FIRST_KEEP_ARTIFACTS is
MatchVerify_always_removes(i, o, ps, result) ==
    CASE result.tag = "Success" ->
            /\ orch' = [orch EXCEPT ![i] = [o EXCEPT !.pc = "create",
                            !.target = @ + 1,
                            !.log = Append(@, LogEntry("ok", o, o.target, o.crash_info[1]))]]
            /\ procs' = ps
            /\ fs' = remove_dir_all(fs, o.work_dir)
      [] OTHER ->
            /\ orch' = [orch EXCEPT ![i] = [o EXCEPT !.pc = "exit1",
                            !.log = Append(@, LogEntry("verify_failed", o, result.code, o.crash_info[1]))]]
            /\ procs' = Exit1(ps, i)
            /\ fs' = fs

\* The match on verify_result going round the loop without target += 1
MatchVerify_keeps_target(i, o, ps, result) ==
    CASE result.tag = "Success" ->
            /\ orch' = [orch EXCEPT ![i] = [o EXCEPT !.pc = "create",
                            !.log = Append(@, LogEntry("ok", o, o.target, o.crash_info[1]))]]
            /\ procs' = ps
            /\ fs' = IF ps[i][1].env.FIRST_KEEP_ARTIFACTS = <<>>
                     THEN remove_dir_all(fs, o.work_dir) ELSE fs
      [] OTHER ->
            /\ orch' = [orch EXCEPT ![i] = [o EXCEPT !.pc = "exit1",
                            !.log = Append(@, LogEntry("verify_failed", o, result.code, o.crash_info[1]))]]
            /\ procs' = Exit1(ps, i)
            /\ fs' = fs

\* match verify_result { Success, Failed, Crashed }, then target += 1
MatchVerify(i, o, ps, result) ==
    CASE result.tag = "Success" ->
            /\ orch' = [orch EXCEPT ![i] = [o EXCEPT !.pc = "create",
                            !.target = @ + 1,
                            !.log = Append(@, LogEntry("ok", o, o.target, o.crash_info[1]))]]
            /\ procs' = ps
            /\ fs' = IF ps[i][1].env.FIRST_KEEP_ARTIFACTS = <<>>
                     THEN remove_dir_all(fs, o.work_dir) ELSE fs
      [] OTHER ->
            /\ orch' = [orch EXCEPT ![i] = [o EXCEPT !.pc = "exit1",
                            !.log = Append(@, LogEntry("verify_failed", o, result.code, o.crash_info[1]))]]
            /\ procs' = Exit1(ps, i)
            /\ fs' = fs

\* spawn_child_with_crash_info(.., target, &base_dir, &crash_info) up to
\* cmd.spawn()
SpawnVerify(i) ==
    /\ orch[i].pc = "spawn_verify"
    /\ LET o == orch[i]
           child == Process(VerifyEnv(procs[i][1].env, o.target, ChildWorkDir(o),
                                      o.crash_info[1]), TestFn(o))
       IN  \/ /\ orch' = [orch EXCEPT ![i] = [o EXCEPT !.pc = "wait_verify",
                                !.trace = Append(@, Event("spawn_verify", o, "ok"))]]
              /\ procs' = [procs EXCEPT ![i] = Append(@, child)]
              /\ fs' = fs
           \/ MatchVerify(i, [o EXCEPT !.trace = Append(@, Event("spawn_verify", o, "err"))],
                          procs, Failed(1))
    /\ rt' = rt

\* spawn_child_with_crash_info after cmd.spawn(): wait, interpret; then the
\* match in run
WaitVerify(i) ==
    /\ orch[i].pc = "wait_verify"
    /\ LET o == orch[i]
           child == procs[i][Len(procs[i])]
       IN  /\ child.status # <<>>
           /\ \/ MatchVerify(i, [o EXCEPT !.trace = Append(@, Event("wait_verify", o, "ok"))],
                             procs, interpret_exit_status(child.status[1], <<>>))
              \/ MatchVerify(i, [o EXCEPT !.trace = Append(@, Event("wait_verify", o, "err"))],
                             procs, Failed(1))
    /\ rt' = rt

----------------------------------------------------------------------------
(* One invocation of a test binary *)

MaxSteps       == 2
MaxVerifySteps == 1
MaxPre         == 1

LabelA == <<"a">>
LabelQ == <<"b", Q>>
NameF  == <<"f">>
NameG  == <<"g">>

RECURSIVE StringsUpTo(_, _)
StringsUpTo(A, n) ==
    IF n = 0 THEN {<<>>}
    ELSE LET shorter == StringsUpTo(A, n - 1)
         IN  shorter \cup {Append(s, c) : s \in {t \in shorter : Len(t) = n - 1}, c \in A}

WorkSteps   == {WRITE(NameF), CP(LabelA), CP(LabelQ)}
DieStatuses == {PANIC_EXIT_CODE, SIGKILL_EXIT_CODE, 0 - SIGKILL, 0 - SIGABRT}

\* A stderr line that starts like a CrashRecord and has no point_id
BadRecord == P_EVENT \o <<"}", NL>>

\* Workloads that write to stderr themselves
StderrWorkloads ==
    {<<EPRINT(BadRecord), DIE(0 - SIGKILL)>>,
     <<EPRINT(BadRecord), CP(LabelA)>>}

Workloads ==
    LET bodies == StringsUpTo(WorkSteps, MaxSteps)
    IN  bodies \cup StderrWorkloads
               \cup {Append(b, DIE(st)) :
                        b \in {c \in bodies : Len(c) < MaxSteps}, st \in DieStatuses}

VerifySteps ==
    {CP(LabelA), WRITE(NameG)}
        \cup {CHECK(id, st) : id \in 1..2, st \in {PANIC_EXIT_CODE, 0 - SIGKILL}}

Verifiers == StringsUpTo(VerifySteps, MaxVerifySteps)

\* The environment the user or CI starts the test binary with
UserEnvs ==
    {EnvVars(<<>>, tgt, <<>>, <<>>, <<>>, <<>>, keep) :
        tgt \in {<<>>, <<to_string(1)>>}, keep \in {<<>>, <<to_string(1)>>}}

RtIdle == [stage |-> "off", point_id |-> 0, label |-> <<>>,
           stderr |-> <<>>, parsed |-> <<>>]

PidA == 1

Started(pid, pre, w, v, env) ==
    LET o == OrchRecord("off", pid, pre, w, v)
    IN  [o |-> o, ps |-> <<Process(env, TestFn(o))>>]

Init ==
    /\ \E w \in Workloads, v \in Verifiers, pre \in 0..MaxPre, env \in UserEnvs :
          LET a == Started(PidA, pre, w, v, env)
          IN  /\ orch = [i \in Invocations |-> IF i = "A" THEN a.o ELSE OrchOff]
              /\ procs = [i \in Invocations |-> IF i = "A" THEN a.ps ELSE <<>>]
    /\ fs = {}
    /\ rt = RtIdle

\* The orchestrator process and the two children of each target
ProcIds == 1..(2 * MaxTarget + 1)

ProcStep(i, k) ==
    \/ DoCrashPoint(i, k)
    \/ Emit(i, k)
    \/ TriggerCrash(i, k)
    \/ DoWrite(i, k)
    \/ DoEprint(i, k)
    \/ DoDie(i, k)
    \/ DoCheck(i, k)
    \/ DoExecute(i, k)
    \/ DoReturn(i, k)

OrchStep(i) ==
    \/ RunInit(i)
    \/ CreateLeaf(i)
    \/ SpawnExec(i)
    \/ WaitExec(i)
    \/ SpawnVerify(i)
    \/ WaitVerify(i)

Next ==
    \E i \in Invocations :
        \/ \E k \in ProcIds : ProcStep(i, k)
        \/ OrchStep(i)

Spec == Init /\ [][Next]_vars

----------------------------------------------------------------------------
(* Properties of one invocation *)

IsExec(p)   == p.env.FIRST_PHASE = <<"EXECUTION">>
IsVerify(p) == p.env.FIRST_PHASE = <<"VERIFY">>

\* The target a child was spawned for
TargetOf(p) == parse_usize(p.env.FIRST_CRASH_TARGET[1])[1]

Children(i) == 2..Len(procs[i])

ExecChildrenFor(i, t) ==
    {k \in Children(i) : IsExec(procs[i][k]) /\ TargetOf(procs[i][k]) = t}

VerifyChildrenFor(i, t) ==
    {k \in Children(i) : IsVerify(procs[i][k]) /\ TargetOf(procs[i][k]) = t}

Killed(status) == status = <<Signaled(SIGKILL)>> \/ status = <<Exited(137)>>

\* Everything an Execution process of the invocation runs, in program order
ExecCode(o) == [k \in 1..o.pre |-> CP(PreLabel)] \o o.run_fn

NoDie(code) == \A k \in 1..Len(code) : code[k].op # "die"

\* No spawn, wait, create_dir_all or current_exe call has failed
NoFault(o) == \A k \in 1..Len(o.trace) : o.trace[k].res # "err"

VerifierPasses(i) ==
    \A k \in Children(i) :
        IsVerify(procs[i][k]) /\ procs[i][k].status # <<>>
            => procs[i][k].status = <<Exited(0)>>

\* The hypothesis of schedule completeness: the workload makes its
\* crash_point calls and returns, the verifier exits 0, every child runs
Regular(i) ==
    /\ orch[i].pc # "off"
    /\ NoDie(orch[i].run_fn)
    /\ NoFault(orch[i])
    /\ VerifierPasses(i)

\* C1: for a workload that makes exactly K crash_point calls and a verifier
\* that always exits 0, the orchestrator runs (Execution, Verify) for the
\* targets 1, 2, ..., K in that order, then one Execution for target K+1 that
\* exits normally, reports "all K crash points passed" and returns success.
C1_ScheduleCompleteness ==
    \A i \in Invocations :
        Regular(i) =>
            LET o == orch[i]
                K == NumCp(ExecCode(o))
                n == Len(procs[i])
            IN  /\ o.pc # "exit1"
                /\ n <= 2 * K + 2
                /\ \A k \in Children(i) :
                      LET c == procs[i][k]
                      IN  /\ TargetOf(c) = k \div 2
                          /\ IF k % 2 = 0 THEN IsExec(c) ELSE IsVerify(c)
                          /\ (k < n /\ k % 2 = 0) => Killed(c.status)
                          /\ (k < n /\ k % 2 = 1) => c.status = <<Exited(0)>>
                /\ o.pc = "returned" =>
                      /\ n = 2 * K + 2
                      /\ o.target = K + 1
                      /\ procs[i][n].status = <<Exited(0)>>
                      /\ Len(o.log) = K + 1
                      /\ \A t \in 1..K : o.log[t].kind = "ok" /\ o.log[t].target = t
                      /\ o.log[K + 1].kind = "all_passed"
                      /\ o.log[K + 1].n = K
                      /\ procs[i][1].status \in {<<>>, <<Exited(0)>>}

C1_Witness ==
    \E i \in Invocations :
        /\ Regular(i)
        /\ orch[i].pc = "returned"
        /\ NumCp(ExecCode(orch[i])) >= 2
        /\ procs[i][1].status = <<Exited(0)>>

\* The orchestrator has dealt with target t
Settled(i, t) ==
    \/ orch[i].target > t
    \/ orch[i].target = t /\ orch[i].pc \in {"wait_verify", "returned", "exit1"}

HasEvent(o, ev, t, res) ==
    \E k \in 1..Len(o.trace) :
        o.trace[k].ev = ev /\ o.trace[k].target = t /\ o.trace[k].res \in res

\* C2 as stated: a Verify child is spawned for target t if and only if the
\* Execution child for t was terminated by SIGKILL or exited with code 137.
C2_SignalKillAuthority ==
    \A i \in Invocations : \A t \in 1..MaxTarget :
        Settled(i, t) =>
            (VerifyChildrenFor(i, t) # {}
                <=> \E k \in ExecChildrenFor(i, t) : Killed(procs[i][k].status))

\* C2 as amended: a Verify child exists for t only if the Execution child for
\* t was terminated by SIGKILL or exited with 137 and the orchestrator's wait
\* for it succeeded; whenever that is the case the orchestrator makes exactly
\* one attempt to spawn the Verify child for t, and the Verify child exists
\* unless that spawn fails.
C2_SignalKillAuthorityAmended ==
    \A i \in Invocations : \A t \in 1..MaxTarget :
        LET o == orch[i]
            killed == /\ HasEvent(o, "wait_exec", t, {"ok"})
                      /\ \E k \in ExecChildrenFor(i, t) : Killed(procs[i][k].status)
        IN  /\ VerifyChildrenFor(i, t) # {} => killed
            /\ Cardinality(VerifyChildrenFor(i, t)) <= 1
            /\ Cardinality({k \in 1..Len(o.trace) :
                    o.trace[k].ev = "spawn_verify" /\ o.trace[k].target = t}) <= 1
            /\ HasEvent(o, "spawn_verify", t, {"ok"}) <=> VerifyChildrenFor(i, t) # {}
            /\ Settled(i, t) =>
                  (HasEvent(o, "spawn_verify", t, {"ok", "err"}) <=> killed)

C2_Witness ==
    \E i \in Invocations :
        /\ VerifyChildrenFor(i, 1) # {}
        /\ Settled(i, 2)
        /\ VerifyChildrenFor(i, 2) = {}
        /\ \E k \in ExecChildrenFor(i, 2) : procs[i][k].status = <<Signaled(SIGABRT)>>

InExecution(p) == init_runtime(p.env).phase = "Execution"

\* C3: in an Execution process with target T the first T-1 crash_point calls
\* return, the T-th call does not return, the process is terminated inside
\* it, and no step after the T-th call is executed.
C3_CrashExactness ==
    \A i \in Invocations : \A k \in Children(i) :
        LET p == procs[i][k]
            T == init_runtime(p.env).target_crash_point
        IN  InExecution(p) =>
              /\ p.calls <= T
              /\ p.returned = (IF p.calls < T THEN p.calls ELSE T - 1)
              /\ p.calls = T =>
                    /\ p.pc \in {"emit", "kill", "dead"}
                    /\ NumCp(p.done) = T
                    /\ p.done[Len(p.done)].op = "crash_point"
                    /\ p.status # <<>> => Killed(p.status)

C3_Witness ==
    \E i \in Invocations : \E k \in Children(i) :
        /\ InExecution(procs[i][k])
        /\ TargetOf(procs[i][k]) = 2
        /\ procs[i][k].calls = 2
        /\ procs[i][k].code # <<EXECUTE>>
        /\ procs[i][k].status = <<Signaled(SIGKILL)>>

\* C4: the i-th crash_point call of an Execution process observes
\* current_id = i; the counter starts at 0 and goes up by one per call.
C4_CounterMonotonicity ==
    \A i \in Invocations : \A k \in Children(i) :
        LET p == procs[i][k]
        IN  InExecution(p) =>
              /\ Len(p.observed) = p.calls
              /\ p.counter = p.calls
              /\ \A j \in 1..Len(p.observed) : p.observed[j] = j

C4_Witness ==
    \E i \in Invocations : \E k \in Children(i) :
        /\ InExecution(procs[i][k])
        /\ Len(procs[i][k].observed) >= 3
        /\ procs[i][k].status = <<Exited(0)>>

\* C5: crash_point calls in Orchestrator or Verify phase leave the counter
\* unchanged, emit nothing and never terminate the process, whatever
\* FIRST_CRASH_TARGET is.
C5_NoOpOutsideExecution ==
    \A i \in Invocations : \A k \in 1..Len(procs[i]) :
        LET p == procs[i][k]
        IN  ~InExecution(p) =>
              /\ p.counter = 0
              /\ p.observed = <<>>
              /\ p.stderr = <<>>
              /\ p.hit = <<>>
              /\ p.returned = p.calls
              /\ p.pc \in {"run", "orchestrator"}

C5_Witness ==
    \E i \in Invocations :
        /\ Len(procs[i]) >= 1
        /\ procs[i][1].calls = 1
        /\ procs[i][1].env.FIRST_CRASH_TARGET = <<to_string(1)>>
        /\ \E k \in Children(i) :
              /\ IsVerify(procs[i][k])
              /\ TargetOf(procs[i][k]) = 2
              /\ procs[i][k].calls = 2
              /\ procs[i][k].status = <<Exited(0)>>

\* C6: the verifier for target T receives a CrashInfo whose point_id is T and
\* whose label is the string passed to the T-th crash_point call of the
\* matching Execution run.
C6_CrashInfoFidelity ==
    \A i \in Invocations : \A k \in Children(i) :
        LET v == procs[i][k]
            e == procs[i][k - 1]
            T == TargetOf(v)
        IN  (IsVerify(v) /\ v.info # <<>> /\ e.hit # <<>>) =>
              /\ v.info[1].point_id = T
              /\ <<v.info[1].label>> = NthLabel(ExecCode(orch[i]), T)

\* C7: the FIRST_WORK_DIR of the Execution and the Verify child for target N
\* is the leaf base/run_N, and every Env::path result of the child lies
\* under that leaf.
C7_LeafIsEnvRoot ==
    \A i \in Invocations : \A k \in Children(i) :
        LET p == procs[i][k]
            l == leaf(orch[i].base_dir, TargetOf(p))
        IN  /\ p.env.FIRST_WORK_DIR = <<l>>
            /\ \A pth \in p.paths : starts_with_path(pth, l)

\* C8: when the Execution child for target N+1 runs, no file written through
\* Env during an earlier iteration is visible under its Env root.
C8_WorkspaceReset ==
    \A i \in Invocations : \A k \in Children(i) :
        LET p == procs[i][k]
        IN  (IsExec(p) /\ p.work_dir # <<>>) =>
              \A e \in fs :
                  (e.kind = "file" /\ e.tag.inv = i /\ e.tag.target < TargetOf(p))
                      => ~starts_with_path(e.path, p.work_dir[1])

\* The Execution attempt for target t has failed: the child ended with a
\* nonzero status other than 137 and SIGKILL, or spawn or wait returned Err
ExecFailure(i, t) ==
    \/ HasEvent(orch[i], "spawn_exec", t, {"err"})
    \/ HasEvent(orch[i], "wait_exec", t, {"err"})
    \/ /\ HasEvent(orch[i], "wait_exec", t, {"ok"})
       /\ \E k \in ExecChildrenFor(i, t) :
              /\ procs[i][k].status # <<>>
              /\ procs[i][k].status # <<Exited(0)>>
              /\ ~Killed(procs[i][k].status)

\* C11: once the Execution attempt for target t has failed (the child ended
\* with a nonzero status other than 137 and SIGKILL, or spawn or wait
\* failed), there is no Verify child for t and no child for a later target,
\* the target is still t, the leaf run_t is on disk, the failure is reported
\* for t and the orchestrator process has exited with status 1.
C11_WorkloadFailureAborts ==
    \A i \in Invocations : \A t \in 1..MaxTarget :
        ExecFailure(i, t) =>
            LET o == orch[i]
            IN  /\ o.pc = "exit1"
                /\ procs[i][1].status = <<Exited(1)>>
                /\ o.target = t
                /\ VerifyChildrenFor(i, t) = {}
                /\ \A k \in Children(i) : TargetOf(procs[i][k]) <= t
                /\ Cardinality(ExecChildrenFor(i, t)) <= 1
                /\ HasEvent(o, "spawn_verify", t, {"ok", "err"}) = FALSE
                /\ IsDir(fs, leaf(o.base_dir, t))
                /\ o.log[Len(o.log)].kind = "exec_failed"
                /\ o.log[Len(o.log)].target = t
                /\ o.log[Len(o.log)].see = leaf(o.base_dir, t)

C11_Witness ==
    \E i \in Invocations :
        /\ ExecFailure(i, 2)
        /\ \E k \in ExecChildrenFor(i, 2) : procs[i][k].status = <<Signaled(SIGABRT)>>
        /\ procs[i][1].status = <<Exited(1)>>
        /\ procs[i][1].env.FIRST_KEEP_ARTIFACTS = <<>>

\* The Verify child k for target t ended with a nonzero exit code or by a
\* signal, and the orchestrator's wait for it has returned
VerifyFailure(i, t, k) ==
    /\ k \in VerifyChildrenFor(i, t)
    /\ HasEvent(orch[i], "wait_verify", t, {"ok", "err"})
    /\ procs[i][k].status # <<>>
    /\ procs[i][k].status # <<Exited(0)>>

\* C12: once the Verify child for target t has ended with a nonzero exit
\* code or by a signal, the orchestrator's last report is the failure for
\* target t with the crash label it passed to the verifier, the leaf run_t is
\* on disk, the Verify child is the last child of the invocation, target is
\* still t and the orchestrator process has exited with status 1.
C12_VerificationFailureAborts ==
    \A i \in Invocations : \A t \in 1..MaxTarget : \A k \in Children(i) :
        VerifyFailure(i, t, k) =>
            LET o == orch[i]
                r == o.log[Len(o.log)]
            IN  /\ o.pc = "exit1"
                /\ procs[i][1].status = <<Exited(1)>>
                /\ o.target = t
                /\ k = Len(procs[i])
                /\ \A j \in Children(i) : TargetOf(procs[i][j]) <= t
                /\ HasEvent(o, "create", t + 1, {"ok", "err"}) = FALSE
                /\ IsDir(fs, leaf(o.base_dir, t))
                /\ r.kind = "verify_failed"
                /\ r.target = t
                /\ r.see = leaf(o.base_dir, t)
                /\ <<r.label>> = procs[i][k].env.FIRST_CRASH_LABEL
                /\ <<to_string(r.point_id)>> = procs[i][k].env.FIRST_CRASH_POINT_ID

C12_Witness ==
    \E i \in Invocations : \E k \in Children(i) :
        /\ VerifyFailure(i, 2, k)
        /\ procs[i][k].status = <<Signaled(SIGKILL)>>
        /\ procs[i][1].status = <<Exited(1)>>
        /\ procs[i][1].env.FIRST_KEEP_ARTIFACTS = <<>>
        /\ ~IsDir(fs, leaf(orch[i].base_dir, 1))

\* The Execution child k for target t was killed by SIGKILL or exited 137,
\* parse_crash_metadata found no parsable CrashRecord line in its stderr, and
\* the orchestrator's wait for it has returned the status
MissingRecord(i, t, k) ==
    /\ IsExec(procs[i][k])
    /\ Killed(procs[i][k].status)
    /\ TargetOf(procs[i][k]) = t
    /\ \E n \in 1..Len(orch[i].trace) :
          LET e == orch[i].trace[n]
          IN  e.ev = "wait_exec" /\ e.target = t /\ e.res = "ok" /\ e.rec = <<>>

\* C13: when the Execution child for t was killed and left no parsable
\* CrashRecord, the orchestrator goes on to the Verify phase with the
\* CrashInfo (0, "unknown"): the Verify child gets FIRST_CRASH_POINT_ID = 0
\* and FIRST_CRASH_LABEL = unknown, no Execution failure is reported for t,
\* and the run ends at t only if the Verify attempt itself fails.
C13_MissingRecordDegrades ==
    \A i \in Invocations : \A k \in Children(i) : \A t \in 1..MaxTarget :
        MissingRecord(i, t, k) =>
            LET o == orch[i]
            IN  /\ \/ o.target = t /\ o.pc = "spawn_verify"
                   \/ HasEvent(o, "spawn_verify", t, {"ok", "err"})
                /\ o.target = t => o.crash_info = <<CrashInfo(0, UNKNOWN)>>
                /\ \A v \in VerifyChildrenFor(i, t) :
                      /\ procs[i][v].env.FIRST_CRASH_POINT_ID = <<to_string(0)>>
                      /\ procs[i][v].env.FIRST_CRASH_LABEL = <<UNKNOWN>>
                      /\ procs[i][v].info # <<>> =>
                            procs[i][v].info = <<CrashInfo(0, UNKNOWN)>>
                /\ \A n \in 1..Len(o.log) :
                      o.log[n].target = t =>
                          /\ o.log[n].kind \in {"ok", "verify_failed"}
                          /\ o.log[n].point_id = 0
                          /\ o.log[n].label = UNKNOWN
                /\ (o.pc = "exit1" /\ o.target = t) =>
                      \/ HasEvent(o, "spawn_verify", t, {"err"})
                      \/ HasEvent(o, "wait_verify", t, {"err"})
                      \/ \E v \in VerifyChildrenFor(i, t) :
                             procs[i][v].status # <<Exited(0)>>
                /\ (\E v \in VerifyChildrenFor(i, t) :
                        /\ procs[i][v].status = <<Exited(0)>>
                        /\ HasEvent(o, "wait_verify", t, {"ok"})) => o.target > t

C13_Witness ==
    \E i \in Invocations : \E k \in Children(i) :
        /\ MissingRecord(i, 1, k)
        /\ procs[i][k].stderr = BadRecord
        /\ procs[i][k].status = <<Signaled(SIGKILL)>>
        /\ \E v \in VerifyChildrenFor(i, 1) :
              /\ procs[i][v].info = <<CrashInfo(0, UNKNOWN)>>
              /\ procs[i][v].status = <<Exited(0)>>
        /\ orch[i].target = 2

\* The number of trace events ev for target t
Attempts(o, ev, t) ==
    Cardinality({n \in 1..Len(o.trace) : o.trace[n].ev = ev /\ o.trace[n].target = t})

\* At most one Execution and one Verify spawn per target
NoRetry(i) ==
    \A t \in 1..MaxTarget :
        /\ Cardinality(ExecChildrenFor(i, t)) <= 1
        /\ Cardinality(VerifyChildrenFor(i, t)) <= 1
        /\ Attempts(orch[i], "spawn_exec", t) <= 1
        /\ Attempts(orch[i], "spawn_verify", t) <= 1

\* The Verify children that have exited 0
VerifyExited0(i) ==
    {k \in Children(i) : IsVerify(procs[i][k]) /\ procs[i][k].status = <<Exited(0)>>}

\* The Verify children that have exited 0 and whose wait returned that status
VerifyWaited0(i) ==
    {k \in VerifyExited0(i) :
        HasEvent(orch[i], "wait_verify", TargetOf(procs[i][k]), {"ok"})}

\* target is set to 1 by run and afterwards changes only by +1, in the step
\* that handles a Verify child that exited 0
UnitAdvance(i) ==
    orch[i].target' # orch[i].target =>
        \/ orch[i].pc = "init" /\ orch[i].target' = 1
        \/ /\ orch[i].target' = orch[i].target + 1
           /\ orch[i].pc = "wait_verify"
           /\ LET v == procs[i][Len(procs[i])]
              IN  /\ IsVerify(v)
                  /\ TargetOf(v) = orch[i].target
                  /\ v.status = <<Exited(0)>>

\* run has set target, run_uuid and base_dir and has entered its loop
InLoop(i) == orch[i].run_uuid # <<>>

\* C14 as stated: each target gets at most one Execution and one Verify
\* spawn, the target starts at 1 and changes only by +1 right after a Verify
\* child exited 0, and target = 1 + (number of Verify children that have
\* exited 0), the moment between the Verify child's exit and the return of
\* the wait for it left aside.
C14_NoRetryUnitAdvance ==
    /\ [](\A i \in Invocations :
            InLoop(i) =>
                /\ NoRetry(i)
                /\ orch[i].pc # "wait_verify" =>
                      orch[i].target = 1 + Cardinality(VerifyExited0(i)))
    /\ [][\A i \in Invocations : UnitAdvance(i)]_vars

\* C14 as amended: the same, with target = 1 + (number of Verify children
\* for which the orchestrator's wait returned exit status 0).
C14_NoRetryUnitAdvanceAmended ==
    /\ [](\A i \in Invocations :
            InLoop(i) =>
                /\ NoRetry(i)
                /\ orch[i].target = 1 + Cardinality(VerifyWaited0(i)))
    /\ [][\A i \in Invocations : UnitAdvance(i)]_vars

C14_Witness ==
    \E i \in Invocations :
        /\ orch[i].target = 3
        /\ orch[i].pc = "exit1"
        /\ Cardinality(VerifyWaited0(i)) = 2
        /\ Cardinality(VerifyExited0(i)) = 2
        /\ Cardinality(ExecChildrenFor(i, 3)) = 1

\* The children of invocation i that have not exited
Alive(i) == {k \in Children(i) : procs[i][k].status = <<>>}

\* C15: the Verify child for t is spawned only after the Execution child for
\* t has exited and the Execution child for t+1 only after the Verify child
\* for t has exited: every child but the last one spawned has exited, so at
\* most one child of the invocation is alive.
C15_SequentialChildren ==
    \A i \in Invocations :
        /\ Cardinality(Alive(i)) <= 1
        /\ \A k \in Children(i) :
              LET c == procs[i][k]
              IN  /\ k < Len(procs[i]) => c.status # <<>>
                  /\ IsVerify(c) =>
                        /\ k > 2
                        /\ IsExec(procs[i][k - 1])
                        /\ TargetOf(procs[i][k - 1]) = TargetOf(c)
                        /\ procs[i][k - 1].status # <<>>
                  /\ (IsExec(c) /\ TargetOf(c) > 1) =>
                        /\ k > 2
                        /\ IsVerify(procs[i][k - 1])
                        /\ TargetOf(procs[i][k - 1]) = TargetOf(c) - 1
                        /\ procs[i][k - 1].status # <<>>
                  /\ (IsExec(c) /\ TargetOf(c) = 1) => k = 2

C15_Witness ==
    \E i \in Invocations :
        /\ Len(procs[i]) = 5
        /\ Alive(i) = {5}
        /\ IsVerify(procs[i][5])
        /\ procs[i][5].closure = "verify"
        /\ procs[i][5].code # <<>>

\* FIRST_KEEP_ARTIFACTS in the environment of the orchestrator process
KeepArtifacts(i) == procs[i][1].env.FIRST_KEEP_ARTIFACTS # <<>>

\* C16: run_N is a directory from the moment before the Execution child for N
\* is spawned until the Verify child for N has been waited for; after a
\* passed verification of N it is gone when FIRST_KEEP_ARTIFACTS is unset and
\* still there when it is set; after an Execution or Verify failure for N it
\* is still there.
C16_LeafLifecycle ==
    \A i \in Invocations :
        InLoop(i) =>
            LET o == orch[i]
                run(N) == leaf(o.base_dir, N)
            IN  /\ o.pc \in {"spawn_exec", "wait_exec", "spawn_verify", "wait_verify"}
                      => IsDir(fs, run(o.target))
                /\ \A k \in Children(i) :
                      procs[i][k].status = <<>> => IsDir(fs, run(TargetOf(procs[i][k])))
                /\ \A N \in 1..(o.target - 1) :
                      /\ o.log[N].kind = "ok" /\ o.log[N].target = N
                      /\ IsDir(fs, run(N)) <=> KeepArtifacts(i)
                      /\ Exists(fs, run(N)) <=> KeepArtifacts(i)
                /\ (o.pc = "exit1" /\ HasEvent(o, "create", o.target, {"ok"}))
                      => IsDir(fs, run(o.target))

C16_Witness ==
    \E i \in Invocations :
        /\ InLoop(i)
        /\ KeepArtifacts(i)
        /\ orch[i].target = 2
        /\ orch[i].pc = "exit1"
        /\ \E k \in VerifyChildrenFor(i, 2) : procs[i][k].status = <<Exited(PANIC_EXIT_CODE)>>
        /\ \A N \in 1..2 : IsDir(fs, leaf(orch[i].base_dir, N))

\* C17: for a workload that makes no crash_point call and returns, the
\* orchestrator spawns one Execution child, for target 1, and no Verify
\* child, reports "all 0 crash points passed" and returns; the test process
\* then exits with status 0.
C17_EmptySchedule ==
    \A i \in Invocations :
        (Regular(i) /\ NumCp(ExecCode(orch[i])) = 0) =>
            LET o == orch[i]
            IN  /\ o.pc \notin {"exit1", "spawn_verify", "wait_verify"}
                /\ Len(procs[i]) <= 2
                /\ \A k \in Children(i) :
                      IsExec(procs[i][k]) /\ TargetOf(procs[i][k]) = 1
                /\ Attempts(o, "spawn_verify", 1) = 0
                /\ Attempts(o, "spawn_exec", 1) <= 1
                /\ InLoop(i) => o.target = 1
                /\ o.pc = "returned" =>
                      /\ Len(procs[i]) = 2
                      /\ procs[i][2].status = <<Exited(0)>>
                      /\ procs[i][2].calls = 0
                      /\ Len(o.log) = 1
                      /\ o.log[1].kind = "all_passed"
                      /\ o.log[1].n = 0
                      /\ procs[i][1].status \in {<<>>, <<Exited(0)>>}
                /\ o.pc # "returned" => procs[i][1].status = <<>>

C17_Witness ==
    \E i \in Invocations :
        /\ Regular(i)
        /\ NumCp(ExecCode(orch[i])) = 0
        /\ orch[i].run_fn = <<WRITE(NameF), WRITE(NameF)>>
        /\ orch[i].pc = "returned"
        /\ procs[i][1].status = <<Exited(0)>>
        /\ procs[i][1].env.FIRST_CRASH_TARGET # <<>>

\* What the steps a process has executed wrote to its stderr themselves
RECURSIVE UserStderr(_)
UserStderr(done) ==
    IF Len(done) = 0 THEN <<>>
    ELSE (IF done[1].op = "eprint" THEN done[1].arg ELSE <<>>)
            \o UserStderr(Tail(done))

\* The CrashRecord line of the crash_point call that hit the target in p
RecordOf(p) ==
    emit_crash_metadata(p.hit[1].point_id, p.hit[1].label,
                        p.env.FIRST_SEED, p.env.FIRST_WORK_DIR)

\* C21: a process that is about to be killed inside crash_point, or has been
\* killed there, has the whole CrashRecord line with its newline in its
\* stderr, once, as the last thing written; a process is killed or exits 137
\* inside crash_point only from that state; a process that has not reached
\* its target has written no CrashRecord; the record is written only in
\* Execution phase.
C21_MetadataBeforeKill ==
    \A i \in Invocations : \A k \in 1..Len(procs[i]) :
        LET p    == procs[i][k]
            user == UserStderr(p.done)
        IN  /\ (p.hit = <<>> \/ p.pc = "emit") =>
                  /\ p.stderr = user
                  /\ p.pc # "dead"
            /\ p.pc \in {"kill", "dead"} =>
                  /\ p.hit # <<>>
                  /\ InExecution(p)
                  /\ p.stderr = user \o RecordOf(p)
                  /\ p.stderr[Len(p.stderr)] = NL
                  /\ starts_with(RecordOf(p), P_EVENT)
            /\ p.pc = "kill" => p.status = <<>>
            /\ p.pc = "dead" => Killed(p.status)
            /\ p.hit # <<>> => p.pc \in {"emit", "kill", "dead"}

C21_Witness ==
    \E i \in Invocations : \E k \in Children(i) :
        /\ procs[i][k].pc = "dead"
        /\ procs[i][k].status = <<Exited(137)>>
        /\ procs[i][k].hit = <<CrashInfo(2, LabelA)>>
        /\ UserStderr(procs[i][k].done) = BadRecord

\* The steps a process has executed after its call of execute(): the steps
\* of the closure execute() invoked
RECURSIVE ClosureSteps(_)
ClosureSteps(done) ==
    IF Len(done) = 0 THEN <<>>
    ELSE IF done[1].op = "execute" THEN Tail(done)
    ELSE ClosureSteps(Tail(done))

IsPrefix(s, t) == Len(s) <= Len(t) /\ SubSeq(t, 1, Len(s)) = s

Executed(p) == \E n \in 1..Len(p.done) : p.done[n].op = "execute"

\* C23: a process in Execution phase runs, after execute(), steps of the
\* workload closure only and never gets a CrashInfo; a process in Verify phase
\* runs steps of the verifier closure only; the process in Orchestrator phase
\* runs no closure step at all; every child the orchestrator spawns is the
\* same test function again, in Execution or Verify phase.
C23_PhaseDispatch ==
    \A i \in Invocations : \A k \in 1..Len(procs[i]) :
        LET p     == procs[i][k]
            phase == init_runtime(p.env).phase
            o     == orch[i]
        IN  /\ phase = "Execution" =>
                  /\ p.closure = (IF Executed(p) THEN "run" ELSE "none")
                  /\ IsPrefix(ClosureSteps(p.done), o.run_fn)
                  /\ p.info = <<>>
            /\ phase = "Verify" =>
                  /\ p.closure = (IF Executed(p) THEN "verify" ELSE "none")
                  /\ IsPrefix(ClosureSteps(p.done), o.verify_fn)
                  /\ Executed(p) => p.info # <<>>
            /\ phase = "Orchestrator" =>
                  /\ p.closure = "none"
                  /\ ClosureSteps(p.done) = <<>>
                  /\ p.info = <<>>
                  /\ p.work_dir = <<>>
            /\ (k = 1) <=> (phase = "Orchestrator")
            /\ k > 1 => IsPrefix(p.done, TestFn(o) \o o.run_fn)
                            \/ IsPrefix(p.done, TestFn(o) \o o.verify_fn)
            /\ (k > 1 /\ ~Executed(p)) => p.done \o p.code = TestFn(o)

C23_Witness ==
    \E i \in Invocations :
        /\ orch[i].pc = "returned"
        /\ procs[i][1].status = <<Exited(0)>>
        /\ orch[i].run_fn = <<WRITE(NameF), CP(LabelA)>>
        /\ orch[i].verify_fn = <<WRITE(NameG)>>
        /\ ClosureSteps(procs[i][2].done) = <<WRITE(NameF), CP(LabelA)>>
        /\ ClosureSteps(procs[i][3].done) = <<WRITE(NameG)>>
        /\ ClosureSteps(procs[i][1].done) = <<>>

\* The value the reproduction command cmd gives the variable name: the text
\* after " name=" up to the next blank, or between the double quotes when it
\* starts with one
ReadVar(cmd, name) ==
    LET at   == find(cmd, <<" ">> \o name \o <<"=">>)
        rest == from(cmd, at[1] + Len(name) + 2)
        quoted == Len(rest) > 0 /\ rest[1] = Q
        body == IF quoted THEN Tail(rest) ELSE rest
        end  == find(body, IF quoted THEN <<Q>> ELSE <<" ">>)
    IN  IF at = <<>> THEN <<>>
        ELSE IF end = <<>> THEN <<body>>
        ELSE <<SubSeq(body, 1, end[1])>>

N_PHASE ==
    <<"F", "I", "R", "S", "T", "_", "P", "H", "A", "S", "E">>
N_TARGET ==
    <<"F", "I", "R", "S", "T", "_", "C", "R", "A", "S", "H", "_", "T", "A",
      "R", "G", "E", "T">>
N_WORK_DIR ==
    <<"F", "I", "R", "S", "T", "_", "W", "O", "R", "K", "_", "D", "I", "R">>
N_POINT_ID ==
    <<"F", "I", "R", "S", "T", "_", "C", "R", "A", "S", "H", "_", "P", "O",
      "I", "N", "T", "_", "I", "D">>
N_LABEL ==
    <<"F", "I", "R", "S", "T", "_", "C", "R", "A", "S", "H", "_", "L", "A",
      "B", "E", "L">>
T_EXECUTION ==
    <<"E", "X", "E", "C", "U", "T", "I", "O", "N">>
T_VERIFY ==
    <<"V", "E", "R", "I", "F", "Y">>

\* The child the last failure report is about, if it was spawned
FailingChild(i) ==
    LET o == orch[i]
        r == o.log[Len(o.log)]
    IN  IF r.kind = "exec_failed" THEN ExecChildrenFor(i, r.target)
        ELSE VerifyChildrenFor(i, r.target)

Failed1(i) ==
    /\ orch[i].pc = "exit1"
    /\ Len(orch[i].log) > 0
    /\ orch[i].log[Len(orch[i].log)].kind \in {"exec_failed", "verify_failed"}

\* C25: the reproduction command of every failure report gives FIRST_PHASE,
\* FIRST_CRASH_TARGET and FIRST_WORK_DIR, and after a Verify failure also
\* FIRST_CRASH_POINT_ID and FIRST_CRASH_LABEL, the values the failing child
\* was started with; the phase is that of the failing child and the command
\* is a single line.
C25_ReproductionFidelity ==
    \A i \in Invocations :
        Failed1(i) =>
            LET o == orch[i]
                r == o.log[Len(o.log)]
            IN  /\ \A n \in 1..Len(r.cmd) : r.cmd[n] # NL
                /\ \A k \in FailingChild(i) :
                      LET env == procs[i][k].env0
                      IN  /\ k = Len(procs[i])
                          /\ ReadVar(r.cmd, N_PHASE) =
                                <<IF env.FIRST_PHASE = <<"EXECUTION">>
                                  THEN T_EXECUTION ELSE T_VERIFY>>
                          /\ ReadVar(r.cmd, N_TARGET) = env.FIRST_CRASH_TARGET
                          /\ ReadVar(r.cmd, N_WORK_DIR) = env.FIRST_WORK_DIR
                          /\ ReadVar(r.cmd, N_POINT_ID) = env.FIRST_CRASH_POINT_ID
                          /\ ReadVar(r.cmd, N_LABEL) = env.FIRST_CRASH_LABEL

C25_Witness ==
    \E i \in Invocations : \E k \in VerifyChildrenFor(i, 2) :
        /\ Failed1(i)
        /\ k \in FailingChild(i)
        /\ procs[i][k].status = <<Exited(PANIC_EXIT_CODE)>>
        /\ procs[i][k].env0.FIRST_CRASH_LABEL = <<<<"b", BS>>>>
        /\ ReadVar(orch[i].log[Len(orch[i].log)].cmd, N_LABEL) = <<<<"b", BS>>>>

----------------------------------------------------------------------------
(* Two invocations running concurrently on one host, as two test functions *)
(* of one test binary (one pid) or as two test binaries (two pids)         *)

PidB == 12

IsoPrograms ==
    {[run_fn |-> <<WRITE(NameF), CP(LabelA)>>, verify_fn |-> <<WRITE(NameF)>>],
     [run_fn |-> <<WRITE(NameF), CP(LabelA), EPRINT(LabelA), DIE(PANIC_EXIT_CODE)>>,
      verify_fn |-> <<CHECK(2, PANIC_EXIT_CODE), WRITE(NameG)>>]}

IsoEnv == EnvVars(<<>>, <<>>, <<>>, <<>>, <<>>, <<>>, <<>>)

InitIso ==
    /\ \E pb \in IsoPrograms, pidB \in {PidA, PidB} :
          LET pa == CHOOSE x \in IsoPrograms : Len(x.run_fn) = 2
              a == Started(PidA, 0, pa.run_fn, pa.verify_fn, IsoEnv)
              b == Started(pidB, 0, pb.run_fn, pb.verify_fn, IsoEnv)
          IN  /\ orch = [i \in Invocations |-> IF i = "A" THEN a.o ELSE b.o]
              /\ procs = [i \in Invocations |-> IF i = "A" THEN a.ps ELSE b.ps]
    /\ fs = {}
    /\ rt = RtIdle

SpecIso == InitIso /\ [][Next]_vars

\* Every result of Env::path in a child of invocation i
EnvPaths(i) == UNION {procs[i][k].paths : k \in Children(i)}

\* C9: for two concurrent invocations with distinct (pid, uuid) pairs, no
\* path produced by Env::path in a child of one equals or lies under a path
\* produced in a child of the other, and a file written by one is never a
\* file of the other.
C9_WorkspaceIsolation ==
    \A i \in Invocations : \A j \in Invocations \ {i} :
        /\ \A pi \in EnvPaths(i) : \A pj \in EnvPaths(j) :
              ~starts_with_path(pi, pj) /\ ~starts_with_path(pj, pi)
        /\ \A e \in fs :
              (e.kind = "file" /\ e.tag.inv = i) =>
                  /\ e.path \in EnvPaths(i)
                  /\ \A pj \in EnvPaths(j) : ~starts_with_path(e.path, pj)
                  /\ orch[j].base_dir # <<>> => ~starts_with_path(e.path, orch[j].base_dir)

C9_Witness ==
    /\ orch["A"].pid = orch["B"].pid
    /\ orch["A"].pc = "wait_exec"
    /\ orch["B"].pc = "wait_exec"
    /\ \E ea \in fs, eb \in fs :
          /\ ea.kind = "file" /\ ea.tag.inv = "A"
          /\ eb.kind = "file" /\ eb.tag.inv = "B"
    /\ procs["A"][2].status = <<>>
    /\ procs["B"][2].status = <<>>

----------------------------------------------------------------------------
(* The CrashRecord pipeline on its own: emit, then parse *)

MaxLabelLen == 2
MaxPointId  == 12

LabelChars == {"a", ",", Q, BS}

RtLabels == StringsUpTo(LabelChars, MaxLabelLen)

InitRT ==
    /\ rt \in [stage : {"input"}, point_id : 1..MaxPointId, label : RtLabels,
               stderr : {<<>>}, parsed : {<<>>}]
    /\ orch = [i \in Invocations |-> OrchOff]
    /\ procs = [i \in Invocations |-> <<>>]
    /\ fs = {}

RtEmit ==
    /\ rt.stage = "input"
    /\ rt' = [rt EXCEPT !.stage = "emitted",
                        !.stderr = emit_crash_metadata(rt.point_id, rt.label, <<>>, <<>>)]
    /\ UNCHANGED <<orch, procs, fs>>

RtParse ==
    /\ rt.stage = "emitted"
    /\ rt' = [rt EXCEPT !.stage = "parsed",
                        !.parsed = parse_crash_metadata(rt.stderr)]
    /\ UNCHANGED <<orch, procs, fs>>

NextRT == RtEmit \/ RtParse

SpecRT == InitRT /\ [][NextRT]_vars

\* C10: emitting a CrashRecord for (point_id, label) and parsing the stderr
\* line gives back a CrashInfo with the same point_id and the same label,
\* for every ASCII label, including labels with '"' and '\'.
C10_RoundTrip ==
    rt.stage = "parsed" => rt.parsed = <<CrashInfo(rt.point_id, rt.label)>>

----------------------------------------------------------------------------
(* The reference WAL: src/examples/reference_wal/src/wal.rs, and its crash  *)
(* consistency test                                                         *)

W_BEGIN  == <<"B", "E", "G", "I", "N">>
W_PUT    == <<"P", "U", "T">>
W_COMMIT == <<"C", "O", "M", "M", "I", "T">>
WAL_DIR  == <<"w", "a", "l">>
WAL_LOG  == <<"w", "a", "l", ".", "l", "o", "g">>

AFTER_BEGIN_WRITE  == <<"a", "f", "t", "e", "r", "_", "b", "e", "g", "i", "n", "_", "w", "r", "i", "t", "e">>
AFTER_WAL_FSYNC    == <<"a", "f", "t", "e", "r", "_", "w", "a", "l", "_", "f", "s", "y", "n", "c">>
AFTER_RECORD_WRITE == <<"a", "f", "t", "e", "r", "_", "r", "e", "c", "o", "r", "d", "_", "w", "r", "i", "t", "e">>
AFTER_COMMIT_WRITE == <<"a", "f", "t", "e", "r", "_", "c", "o", "m", "m", "i", "t", "_", "w", "r", "i", "t", "e">>

Key(n)   == <<"k", "e", "y">> \o to_string(n)
Value(n) == <<"v", "a", "l", "u", "e">> \o to_string(n)

\* str::splitn(n, sep): at most n parts, the last one holding the rest
RECURSIVE splitn(_, _, _)
splitn(s, n, sep) ==
    LET at == find(s, <<sep>>)
    IN  IF n <= 1 \/ at = <<>> THEN <<s>>
        ELSE <<SubSeq(s, 1, at[1])>> \o splitn(from(s, at[1] + 1), n - 1, sep)

\* writeln!(file, "BEGIN {}", txid) and the other two records
begin_record(txid)  == W_BEGIN \o <<" ">> \o to_string(txid) \o <<NL>>
put_record(txid, key, value) ==
    W_PUT \o <<" ">> \o to_string(txid) \o <<" ">> \o key \o <<" ">> \o value \o <<NL>>
commit_record(txid) == W_COMMIT \o <<" ">> \o to_string(txid) \o <<NL>>

\* HashMap::insert
insert(m, k, v) == [x \in DOMAIN m \cup {k} |-> IF x = k THEN v ELSE m[x]]

\* HashMap::remove
remove(m, k) == [x \in DOMAIN m \ {k} |-> m[x]]

EmptyMap == [x \in {} |-> <<>>]

\* state.insert(key, value) for every operation of a committed transaction
RECURSIVE apply_ops(_, _)
apply_ops(state, ops) ==
    IF Len(ops) = 0 THEN state
    ELSE apply_ops(insert(state, ops[1][1], ops[1][2]), Tail(ops))

\* The loop body of a recovery that applies a PUT record when it reads it
recover_line_applies_put(acc, line) ==
    LET parts == splitn(line, 4, " ")
        txid  == IF Len(parts) >= 2 THEN parse_usize(parts[2]) ELSE <<>>
        panic == [acc EXCEPT !.panicked = TRUE]
    IN  IF Len(line) = 0 THEN acc
        ELSE IF parts[1] = W_BEGIN THEN
            IF Len(parts) # 2 \/ txid = <<>> THEN panic
            ELSE [acc EXCEPT !.max_txid = IF txid[1] > @ THEN txid[1] ELSE @,
                             !.pending = insert(@, txid[1], <<>>)]
        ELSE IF parts[1] = W_PUT THEN
            IF Len(parts) # 4 \/ txid = <<>> THEN panic
            ELSE IF txid[1] \in DOMAIN acc.pending
                 THEN [acc EXCEPT !.state = insert(@, parts[3], parts[4])]
                 ELSE acc
        ELSE IF parts[1] = W_COMMIT THEN
            IF Len(parts) # 2 \/ txid = <<>> THEN panic
            ELSE IF txid[1] \in DOMAIN acc.pending
                 THEN [acc EXCEPT !.pending = remove(@, txid[1])]
                 ELSE acc
        ELSE panic

\* One iteration of the loop of recover_from_file; acc.panicked is set where
\* the code panics
recover_line(acc, line) ==
    LET parts == splitn(line, 4, " ")
        txid  == IF Len(parts) >= 2 THEN parse_usize(parts[2]) ELSE <<>>
        panic == [acc EXCEPT !.panicked = TRUE]
    IN  IF Len(line) = 0 THEN acc
        ELSE IF parts[1] = W_BEGIN THEN
            IF Len(parts) # 2 \/ txid = <<>> THEN panic
            ELSE [acc EXCEPT !.max_txid = IF txid[1] > @ THEN txid[1] ELSE @,
                             !.pending = insert(@, txid[1], <<>>)]
        ELSE IF parts[1] = W_PUT THEN
            IF Len(parts) # 4 \/ txid = <<>> THEN panic
            ELSE IF txid[1] \in DOMAIN acc.pending
                 THEN [acc EXCEPT !.pending[txid[1]] = Append(@, <<parts[3], parts[4]>>)]
                 ELSE acc
        ELSE IF parts[1] = W_COMMIT THEN
            IF Len(parts) # 2 \/ txid = <<>> THEN panic
            ELSE IF txid[1] \in DOMAIN acc.pending
                 THEN [acc EXCEPT !.state = apply_ops(@, acc.pending[txid[1]]),
                                  !.pending = remove(@, txid[1])]
                 ELSE acc
        ELSE panic

RECURSIVE recover_lines(_, _)
recover_lines(acc, ls) ==
    IF Len(ls) = 0 \/ acc.panicked THEN acc
    ELSE recover_lines(recover_line(acc, ls[1]), Tail(ls))

\* Wal::recover_from_file on the content of the file: the committed state and
\* the largest txid of a BEGIN record
recover_from_file(data) ==
    recover_lines([pending |-> EmptyMap, state |-> EmptyMap, max_txid |-> 0,
                   panicked |-> FALSE], lines(data))

\* Wal::get
get(wal, key) == IF key \in DOMAIN wal.state THEN <<wal.state[key]>> ELSE <<>>

\* The steps of the closures of transaction_atomicity_under_crash
WAL_OPEN(name) == Step("wal_open", name, 0, 0)     \* Wal::open(&env.path(name)).unwrap()
WAL_BEGIN      == Step("wal_begin", <<>>, 0, 0)    \* txid = next_txid; writeln!("BEGIN ..")
WAL_SYNC       == Step("wal_sync", <<>>, 0, 0)     \* self.file.sync_all().expect(..)
WAL_PUT(n)     == Step("wal_put", <<Key(n), Value(n)>>, 0, 0)  \* writeln!("PUT ..")
WAL_COMMIT     == Step("wal_commit", <<>>, 0, 0)   \* writeln!("COMMIT ..")
WAL_RECOVER    == Step("wal_recover", <<>>, 0, 0)  \* self.state = recover_from_file(..)
WAL_CHECK      == Step("wal_check", <<>>, 0, 0)    \* the match on visible_count

\* Wal::begin, Wal::put and Wal::commit as sequences of steps
begin    == <<WAL_BEGIN, CP(AFTER_BEGIN_WRITE), WAL_SYNC, CP(AFTER_WAL_FSYNC)>>
put(n)   == <<WAL_PUT(n), CP(AFTER_RECORD_WRITE)>>
commit   == <<WAL_SYNC, WAL_COMMIT, CP(AFTER_COMMIT_WRITE), WAL_SYNC,
              CP(AFTER_WAL_FSYNC), WAL_RECOVER>>

WalWorkload == <<WAL_OPEN(WAL_DIR)>> \o begin \o put(1) \o put(2) \o put(3) \o commit

WalVerifier == <<WAL_OPEN(WAL_DIR), WAL_CHECK>>

Panicked(p) == [p EXCEPT !.status = <<Exited(PANIC_EXIT_CODE)>>]

FileTag(i, p) == [inv |-> i, target |-> orch[i].target, phase |-> runtime(p).phase]

\* The path of the file of an open Wal
wal_path(wal) == join(wal.dir, WAL_LOG)

\* Wal::open(&env.path(name)).unwrap()
DoWalOpen(i, k) ==
    /\ NextStep(i, k, "wal_open")
    /\ LET p    == procs[i][k]
           pth  == path(p.work_dir[1], Head(p.code).arg)
           dir  == pth[1]
           fs1  == create_dir_all(fs, dir)
           file == join(dir, WAL_LOG)
           rec  == IF Exists(fs1, file) THEN recover_from_file(read_file(fs1, file))
                   ELSE recover_from_file(<<>>)
           wal  == [dir |-> dir, state |-> rec.state,
                    next_txid |-> rec.max_txid + 1, tx |-> 0]
       IN  IF pth = <<>>
           THEN /\ procs' = [procs EXCEPT ![i][k] = Panicked(Advance(p))]
                /\ fs' = fs
           ELSE IF rec.panicked
           THEN /\ procs' = [procs EXCEPT ![i][k] =
                        [Panicked(Advance(p)) EXCEPT !.paths = @ \cup {dir}]]
                /\ fs' = fs1
           ELSE /\ procs' = [procs EXCEPT ![i][k] =
                        [Advance(p) EXCEPT !.paths = @ \cup {dir}, !.wal = <<wal>>]]
                /\ fs' = open_append(fs1, file, FileTag(i, p))
    /\ UNCHANGED <<orch, rt>>

\* Wal::begin up to its first crash_point
DoWalBegin(i, k) ==
    /\ NextStep(i, k, "wal_begin")
    /\ LET p    == procs[i][k]
           wal  == p.wal[1]
           txid == wal.next_txid
       IN  /\ procs' = [procs EXCEPT ![i][k] =
                    [Advance(p) EXCEPT !.wal = <<[wal EXCEPT !.next_txid = @ + 1,
                                                             !.tx = txid]>>]]
           /\ fs' = append_file(fs, wal_path(wal), FileTag(i, p), begin_record(txid))
    /\ UNCHANGED <<orch, rt>>

\* Wal::put up to its crash_point
DoWalPut(i, k) ==
    /\ NextStep(i, k, "wal_put")
    /\ LET p   == procs[i][k]
           wal == p.wal[1]
           kv  == Head(p.code).arg
       IN  /\ procs' = [procs EXCEPT ![i][k] = Advance(p)]
           /\ fs' = append_file(fs, wal_path(wal), FileTag(i, p),
                                put_record(wal.tx, kv[1], kv[2]))
    /\ UNCHANGED <<orch, rt>>

\* self.file.sync_all(): the data written is in the file already; a process
\* killed by SIGKILL loses nothing of it
DoWalSync(i, k) ==
    /\ NextStep(i, k, "wal_sync")
    /\ procs' = [procs EXCEPT ![i][k] = Advance(procs[i][k])]
    /\ UNCHANGED <<orch, fs, rt>>

\* Wal::commit: writeln!(self.file, "COMMIT {}", txid)
DoWalCommit(i, k) ==
    /\ NextStep(i, k, "wal_commit")
    /\ LET p   == procs[i][k]
           wal == p.wal[1]
       IN  /\ procs' = [procs EXCEPT ![i][k] = Advance(p)]
           /\ fs' = append_file(fs, wal_path(wal), FileTag(i, p), commit_record(wal.tx))
    /\ UNCHANGED <<orch, rt>>

\* Wal::commit: the recovery at its end
DoWalRecover(i, k) ==
    /\ NextStep(i, k, "wal_recover")
    /\ LET p   == procs[i][k]
           wal == p.wal[1]
           rec == recover_from_file(read_file(fs, wal_path(wal)))
       IN  procs' = [procs EXCEPT ![i][k] =
                IF rec.panicked THEN Panicked(Advance(p))
                ELSE [Advance(p) EXCEPT !.wal = <<[wal EXCEPT !.state = rec.state]>>]]
    /\ UNCHANGED <<orch, fs, rt>>

\* The keys among key1, key2, key3 that wal.get finds
Visible(wal) == {n \in 1..3 : get(wal, Key(n)) # <<>>}

\* The verifier: panic unless 0 keys are visible or all 3 with their values
DoWalCheck(i, k) ==
    /\ NextStep(i, k, "wal_check")
    /\ LET p   == procs[i][k]
           wal == p.wal[1]
           visible_count == Cardinality(Visible(wal))
           pass == \/ visible_count = 0
                   \/ /\ visible_count = 3
                      /\ \A n \in 1..3 : get(wal, Key(n)) = <<Value(n)>>
       IN  procs' = [procs EXCEPT ![i][k] =
                IF pass THEN Advance(p) ELSE Panicked(Advance(p))]
    /\ UNCHANGED <<orch, fs, rt>>

InitWal ==
    /\ \E env \in {e \in UserEnvs : e.FIRST_CRASH_TARGET = <<>>} :
          LET a == Started(PidA, 0, WalWorkload, WalVerifier, env)
          IN  /\ orch = [i \in Invocations |-> IF i = "A" THEN a.o ELSE OrchOff]
              /\ procs = [i \in Invocations |-> IF i = "A" THEN a.ps ELSE <<>>]
    /\ fs = {}
    /\ rt = RtIdle

\* The orchestrator process and the two children of each target
WalProcIds == 1..(2 * (WalPoints + 1) + 1)

WalProcStep(i, k) ==
    \/ DoCrashPoint(i, k)
    \/ Emit(i, k)
    \/ TriggerCrash(i, k)
    \/ DoExecute(i, k)
    \/ DoReturn(i, k)
    \/ DoWalOpen(i, k)
    \/ DoWalBegin(i, k)
    \/ DoWalPut(i, k)
    \/ DoWalSync(i, k)
    \/ DoWalCommit(i, k)
    \/ DoWalRecover(i, k)
    \/ DoWalCheck(i, k)

NextWal ==
    \E i \in Invocations :
        \/ \E k \in WalProcIds : WalProcStep(i, k)
        \/ OrchStep(i)

SpecWal == InitWal /\ [][NextWal]_vars

\* The label of the t-th crash_point call of the workload
WalLabel(t) == NthLabel(WalWorkload, t)[1]

\* C20: in the test transaction_atomicity_under_crash every crash the
\* orchestrator explores is at one of the seven crash_point calls of begin,
\* put and commit, in program order; every verifier that has reopened the
\* WAL sees none of key1, key2, key3 or all three with value1, value2,
\* value3; every Verify child exits 0; without a spawn, wait or
\* create_dir_all error the run does not fail, and it ends after target 8
\* with "all 7 crash points passed".
C20_WalAtomicity ==
    \A i \in Invocations :
        LET o == orch[i]
        IN  /\ \A k \in Children(i) :
                  LET p == procs[i][k]
                  IN  /\ (IsVerify(p) /\ p.wal # <<>>) =>
                            /\ Cardinality(Visible(p.wal[1])) \in {0, 3}
                            /\ Visible(p.wal[1]) # {} =>
                                  \A n \in 1..3 : get(p.wal[1], Key(n)) = <<Value(n)>>
                      /\ (IsVerify(p) /\ p.status # <<>>) => p.status = <<Exited(0)>>
                      /\ (IsExec(p) /\ p.status # <<>>) =>
                            Killed(p.status) \/ p.status = <<Exited(0)>>
                      /\ (IsExec(p) /\ p.hit # <<>>) =>
                            /\ TargetOf(p) <= WalPoints
                            /\ p.hit = <<CrashInfo(TargetOf(p), WalLabel(TargetOf(p)))>>
            /\ NoFault(o) => o.pc # "exit1"
            /\ o.pc = "returned" =>
                  /\ o.target = WalPoints + 1
                  /\ Len(o.log) = WalPoints + 1
                  /\ \A t \in 1..WalPoints :
                        /\ o.log[t].kind = "ok"
                        /\ o.log[t].point_id = t
                        /\ o.log[t].label = WalLabel(t)
                        /\ \E v \in VerifyChildrenFor(i, t) :
                              /\ procs[i][v].done = <<EXECUTE>> \o WalVerifier
                              /\ procs[i][v].status = <<Exited(0)>>
                  /\ o.log[WalPoints + 1].kind = "all_passed"
                  /\ o.log[WalPoints + 1].n = WalPoints
                  /\ procs[i][1].status \in {<<>>, <<Exited(0)>>}

C20_Witness ==
    \E i \in Invocations :
        /\ orch[i].pc = "returned"
        /\ procs[i][1].status = <<Exited(0)>>
        /\ \E v \in VerifyChildrenFor(i, 5) : Visible(procs[i][v].wal[1]) = {}
        /\ \E v \in VerifyChildrenFor(i, 6) : Visible(procs[i][v].wal[1]) = {1, 2, 3}
        /\ \E e \in ExecChildrenFor(i, 7) : procs[i][e].wal[1].tx = 7

----------------------------------------------------------------------------
(* Env::path on its own *)

MaxNameLen == 3

NameChars == {"a", ".", "/"}

PathNames == StringsUpTo(NameChars, MaxNameLen)

\* Env roots: the directory the orchestrator passes, and the default of
\* TestBuilder::execute
EnvRoots == {base_dir(PidA, <<"a", "-", "1">>), join(join(TmpDir, FIRST_DIR), DEFAULT)}

InitPath ==
    /\ fs \in {{}, create_dir_all({}, join(join(TmpDir, FIRST_DIR), DEFAULT))}
    /\ rt \in [stage : {"input"}, root : EnvRoots, name : PathNames,
               result : {<<>>}, panicked : {FALSE}, fs0 : {fs}]
    /\ orch = [i \in Invocations |-> OrchOff]
    /\ procs = [i \in Invocations |-> <<>>]

\* env.path(name) on an Env with the root rt.root
EnvPath ==
    /\ rt.stage = "input"
    /\ LET r == path(rt.root, rt.name)
       IN  rt' = [rt EXCEPT !.stage = "called", !.result = r,
                            !.panicked = (r = <<>>)]
    /\ UNCHANGED <<orch, procs, fs>>

NextPath == EnvPath

SpecPath == InitPath /\ [][NextPath]_vars

\* C18: Env::path panics and returns no path for every input that starts
\* with '/'; for every other input it returns the root, a '/' and the input;
\* the filesystem is the same after the call as before.
C18_PathRejectsAbsolute ==
    rt.stage = "called" =>
        /\ (Len(rt.name) > 0 /\ rt.name[1] = "/") =>
              rt.panicked /\ rt.result = <<>>
        /\ ~(Len(rt.name) > 0 /\ rt.name[1] = "/") =>
              ~rt.panicked /\ rt.result = <<rt.root \o <<"/">> \o rt.name>>
        /\ fs = rt.fs0

C18_Witness ==
    /\ rt.stage = "called"
    /\ rt.name = <<"/", "a">>
    /\ rt.panicked
    /\ fs # {}

----------------------------------------------------------------------------
(* Two invocations of one deterministic test, in different environments *)

DetPrograms ==
    {[run_fn |-> <<WRITE(NameF), CP(LabelA), EPRINT(LabelA), CP(LabelQ)>>,
      verify_fn |-> <<CHECK(2, PANIC_EXIT_CODE)>>],
     [run_fn |-> <<CP(LabelQ), DIE(PANIC_EXIT_CODE)>>, verify_fn |-> <<>>]}

\* Values of FIRST_SEED; it is echoed into the CrashRecord as it is
Seeds == {<<<<"7">>>>, <<<<Q, NL>>>>}

InitDet ==
    /\ \E pr \in DetPrograms, seed \in Seeds :
          LET a == Started(PidA, 0, pr.run_fn, pr.verify_fn, IsoEnv)
              b == Started(PidB, 0, pr.run_fn, pr.verify_fn,
                           EnvVars(<<>>, <<>>, <<>>, <<>>, <<>>, seed, <<>>))
          IN  /\ orch = [i \in Invocations |-> IF i = "A" THEN a.o ELSE b.o]
              /\ procs = [i \in Invocations |-> IF i = "A" THEN a.ps ELSE b.ps]
    /\ fs = {}
    /\ rt = RtIdle

SpecDet == InitDet /\ [][Next]_vars

\* What parse_crash_metadata returned for the Execution child for target t
Records(o, t) ==
    {o.trace[n].rec : n \in {m \in 1..Len(o.trace) :
        o.trace[m].ev = "wait_exec" /\ o.trace[m].target = t}}

\* C19: two Execution runs of the same workload with the same
\* FIRST_CRASH_TARGET, in invocations whose FIRST_SEED, pid and work
\* directory differ, execute the same steps, make the same number of
\* crash_point calls and, when they crash, crash in the same call with the
\* same point_id and label, and the orchestrators parse the same record.
C19_CrashDeterminism ==
    \A t \in 1..MaxTarget :
        \A ka \in ExecChildrenFor("A", t) : \A kb \in ExecChildrenFor("B", t) :
            LET a == procs["A"][ka]
                b == procs["B"][kb]
            IN  (a.status # <<>> /\ b.status # <<>>) =>
                    /\ a.calls = b.calls
                    /\ a.observed = b.observed
                    /\ a.hit = b.hit
                    /\ a.done = b.done
                    /\ Killed(a.status) <=> Killed(b.status)
                    /\ \A ra \in Records(orch["A"], t) :
                          \A rb \in Records(orch["B"], t) : ra = rb

C19_Witness ==
    /\ procs["A"][1].env.FIRST_SEED # procs["B"][1].env.FIRST_SEED
    /\ \E ka \in ExecChildrenFor("A", 2) : \E kb \in ExecChildrenFor("B", 2) :
          /\ procs["A"][ka].hit = <<CrashInfo(2, LabelQ)>>
          /\ procs["B"][kb].hit = <<CrashInfo(2, LabelQ)>>
          /\ Killed(procs["A"][ka].status)
          /\ Killed(procs["B"][kb].status)
          /\ procs["A"][ka].stderr # procs["B"][kb].stderr
    /\ Records(orch["A"], 2) # {}
    /\ Records(orch["B"], 2) # {}

----------------------------------------------------------------------------
(* Several threads of one process calling crash_point concurrently.  The   *)
(* process state is in rt: CRASH_COUNTER, RUNTIME, stderr, the exit status *)
(* and, per thread, the position in crash_point, the calls left to make    *)
(* and the current_id values its calls computed.                           *)

MaxThreads == 2
MaxCalls   == 2

ThreadIds == 1..MaxThreads

ThreadEnvs ==
    {EnvVars(<<phase>>, tgt, <<>>, <<>>, <<>>, <<>>, <<>>) :
        phase \in {"EXECUTION", "VERIFY"},
        tgt \in {<<>>} \cup {<<to_string(n)>> : n \in 1..(MaxCalls + 1)}}

Thread(left) == [pc |-> "idle", left |-> left, current_id |-> 0, ids |-> <<>>]

InitThreads ==
    /\ \E env \in ThreadEnvs, left \in [ThreadIds -> 1..MaxCalls] :
          rt = [stage |-> "threads", env |-> env, config |-> <<>>, counter |-> 0,
                stderr |-> <<>>, status |-> <<>>,
                th |-> [t \in ThreadIds |-> Thread(left[t])]]
    /\ orch = [i \in Invocations |-> OrchOff]
    /\ procs = [i \in Invocations |-> <<>>]
    /\ fs = {}

ThAt(t, pc) == rt.status = <<>> /\ rt.th[t].pc = pc

\* crash_point: let config = runtime(); return unless phase is Execution
ThRuntime(t) ==
    /\ ThAt(t, "idle")
    /\ rt.th[t].left > 0
    /\ LET config == runtime(rt)
       IN  rt' = [rt EXCEPT !.config = <<config>>,
                            !.th[t] = IF config.phase # "Execution"
                                      THEN [@ EXCEPT !.left = @ - 1]
                                      ELSE [@ EXCEPT !.pc = "fetch"]]
    /\ UNCHANGED <<orch, procs, fs>>

\* crash_point with a load and a store in place of fetch_add: the value
\* loaded may be one increment old when it is written back
ThFetchAdd_load_store(t) ==
    /\ ThAt(t, "fetch")
    /\ \E previous \in {c \in {rt.counter - 1, rt.counter} : c >= 0} :
          LET current_id == previous + 1
              target     == rt.config[1].target_crash_point
          IN  rt' = [rt EXCEPT !.counter = previous + 1,
                               !.th[t] = [@ EXCEPT
                                    !.current_id = current_id,
                                    !.ids = Append(@, current_id),
                                    !.pc = IF current_id = target THEN "emit" ELSE "idle",
                                    !.left = @ - 1]]
    /\ UNCHANGED <<orch, procs, fs>>

\* previous = CRASH_COUNTER.fetch_add(1, SeqCst); current_id = previous + 1;
\* if current_id == target { .. } (the comparison is on locals of the thread)
ThFetchAdd(t) ==
    /\ ThAt(t, "fetch")
    /\ LET previous   == rt.counter
           current_id == previous + 1
           target     == rt.config[1].target_crash_point
       IN  rt' = [rt EXCEPT !.counter = previous + 1,
                            !.th[t] = [@ EXCEPT
                                 !.current_id = current_id,
                                 !.ids = Append(@, current_id),
                                 !.pc = IF current_id = target THEN "emit" ELSE "idle",
                                 !.left = @ - 1]]
    /\ UNCHANGED <<orch, procs, fs>>

\* emit_crash_metadata: stderr().write_all(metadata.as_bytes())
ThEmit(t) ==
    /\ ThAt(t, "emit")
    /\ LET line == emit_crash_metadata(rt.th[t].current_id, LabelA,
                                       rt.env.FIRST_SEED, rt.env.FIRST_WORK_DIR)
       IN  rt' = [rt EXCEPT !.stderr = @ \o SubSeq(line, 1, Len(line) - 1),
                            !.th[t].pc = "newline"]
    /\ UNCHANGED <<orch, procs, fs>>

\* emit_crash_metadata: stderr().write_all(b"\n"); stderr().flush()
ThNewline(t) ==
    /\ ThAt(t, "newline")
    /\ rt' = [rt EXCEPT !.stderr = @ \o <<NL>>, !.th[t].pc = "kill"]
    /\ UNCHANGED <<orch, procs, fs>>

\* trigger_crash: the whole process ends
ThKill(t) ==
    /\ ThAt(t, "kill")
    /\ \E st \in {Signaled(SIGKILL), Exited(137)} :
          rt' = [rt EXCEPT !.status = <<st>>, !.th[t].pc = "dead"]
    /\ UNCHANGED <<orch, procs, fs>>

NextThreads ==
    \E t \in ThreadIds :
        \/ ThRuntime(t)
        \/ ThFetchAdd(t)
        \/ ThEmit(t)
        \/ ThNewline(t)
        \/ ThKill(t)

SpecThreads == InitThreads /\ [][NextThreads]_vars

\* The current_id values the calls of thread t have observed
IdsOf(t) == {rt.th[t].ids[n] : n \in 1..Len(rt.th[t].ids)}

RECURSIVE SumCalls(_)
SumCalls(T) ==
    IF T = {} THEN 0
    ELSE LET t == CHOOSE x \in T : TRUE
         IN  Len(rt.th[t].ids) + SumCalls(T \ {t})

\* The threads that are in, or were killed in, the branch current_id == target
Crashing == {t \in ThreadIds : rt.th[t].pc \in {"emit", "newline", "kill", "dead"}}

\* C22: in an Execution process whose threads call crash_point concurrently
\* the current_id values of the n calls made so far are pairwise distinct,
\* within a thread and across threads, and are the set 1..n; at most one call
\* has observed the target, exactly one once n has reached the target, and
\* only the thread of that call goes on to emit the record and kill the
\* process.
C22_ConcurrentCounterIntegrity ==
    init_runtime(rt.env).phase = "Execution" =>
        LET n      == SumCalls(ThreadIds)
            target == init_runtime(rt.env).target_crash_point
            hits   == {t \in ThreadIds : target \in IdsOf(t)}
        IN  /\ \A t \in ThreadIds :
                  /\ Cardinality(IdsOf(t)) = Len(rt.th[t].ids)
                  /\ \A u \in ThreadIds \ {t} : IdsOf(t) \cap IdsOf(u) = {}
            /\ UNION {IdsOf(t) : t \in ThreadIds} = 1..n
            /\ rt.counter = n
            /\ Cardinality(hits) = (IF n >= target THEN 1 ELSE 0)
            /\ Crashing = hits
            /\ rt.status # <<>> => Killed(rt.status) /\ Cardinality(hits) = 1

C22_Witness ==
    /\ rt.status = <<Signaled(SIGKILL)>>
    /\ rt.th[2].ids = <<2>>
    /\ rt.th[1].ids = <<1, 3>>
    /\ rt.th[2].pc = "dead"

----------------------------------------------------------------------------
(* A test binary started with any FIRST_PHASE and FIRST_CRASH_TARGET, whose *)
(* closures change these variables while they run                           *)

MaxCfgSteps == 2

TargetX == <<"x">>

CfgSteps == {CP(LabelA), SET_PHASE(2), SET_TARGET(to_string(1)), REMOVE_TARGET}

CfgWorkloads == StringsUpTo(CfgSteps, MaxCfgSteps)

CfgVerifier == <<SET_PHASE(1), CP(LabelA)>>

CfgEnvs ==
    {EnvVars(phase, tgt, <<>>, <<>>, <<>>, <<>>, <<>>) :
        phase \in {<<>>} \cup {<<PhaseValues[n]>> : n \in 1..3},
        tgt \in {<<>>, <<to_string(0)>>, <<to_string(1)>>, <<to_string(2)>>, <<TargetX>>}}

InitCfg ==
    /\ \E w \in CfgWorkloads, pre \in 0..MaxPre, env \in CfgEnvs :
          LET a == Started(PidA, pre, w, CfgVerifier, env)
          IN  /\ orch = [i \in Invocations |-> IF i = "A" THEN a.o ELSE OrchOff]
              /\ procs = [i \in Invocations |-> IF i = "A" THEN a.ps ELSE <<>>]
    /\ fs = {}
    /\ rt = RtIdle

CfgProcStep(i, k) ==
    \/ DoCrashPoint(i, k)
    \/ Emit(i, k)
    \/ TriggerCrash(i, k)
    \/ DoSetVar(i, k)
    \/ DoExecute(i, k)
    \/ DoReturn(i, k)

NextCfg ==
    \E i \in Invocations :
        \/ \E k \in ProcIds : CfgProcStep(i, k)
        \/ OrchStep(i)

SpecCfg == InitCfg /\ [][NextCfg]_vars

\* The environment after the steps of done that come before the first call
\* of runtime(), in crash_point or in execute()
RECURSIVE EnvAtFirstAccess(_, _)
EnvAtFirstAccess(env, done) ==
    IF Len(done) = 0 THEN env
    ELSE LET c == done[1]
         IN  IF c.op \in {"crash_point", "execute"} THEN env
             ELSE EnvAtFirstAccess(SetVar(env, c), Tail(done))

Accessed(p) == \E n \in 1..Len(p.done) : p.done[n].op \in {"crash_point", "execute"}

\* C24: the RuntimeConfig of a process is what init_runtime gives for the
\* environment at the first call of runtime(); once set it never changes,
\* whatever the process does to FIRST_PHASE and FIRST_CRASH_TARGET later; its
\* target is usize::MAX whenever its phase is not Execution.
C24_RuntimeConfigFixed ==
    /\ [](\A i \in Invocations : \A k \in 1..Len(procs[i]) :
            LET p == procs[i][k]
            IN  /\ (p.config # <<>>) <=> Accessed(p)
                /\ p.config # <<>> =>
                      /\ p.config[1] = init_runtime(EnvAtFirstAccess(p.env0, p.done))
                      /\ p.config[1].phase # "Execution" =>
                            p.config[1].target_crash_point = USIZE_MAX)
    /\ [][\A i \in Invocations : \A k \in 1..Len(procs[i]) :
            procs[i][k].config # <<>> => procs'[i][k].config = procs[i][k].config]_vars

C24_Witness ==
    \E i \in Invocations : \E k \in 1..Len(procs[i]) :
        LET p == procs[i][k]
        IN  /\ p.config # <<>>
            /\ p.config[1] = [phase |-> "Execution", target_crash_point |-> 2]
            /\ init_runtime(p.env) = [phase |-> "Verify", target_crash_point |-> USIZE_MAX]
            /\ p.done[Len(p.done) - 1].op = "set_phase"
            /\ p.done[Len(p.done)].op = "crash_point"
            /\ p.hit = <<CrashInfo(2, LabelA)>>

\* FIRST_CRASH_TARGET is missing, unparsable or 0
NoTarget(env) ==
    \/ env.FIRST_CRASH_TARGET = <<>>
    \/ parse_usize(env.FIRST_CRASH_TARGET[1]) \in {<<>>, <<0>>}

\* C30: a process in Execution phase that found FIRST_CRASH_TARGET missing,
\* unparsable or 0 at its first call of runtime() has the target usize::MAX
\* or 0; each of its crash_point calls increments the counter and returns,
\* none emits a record or ends the process; it runs its test function and
\* workload to the end and exits with status 0, which interpret_exit_status
\* classifies as Success (schedule exhausted).
C30_NoTargetNeverCrashes ==
    \A i \in Invocations : \A k \in 1..Len(procs[i]) :
        LET p == procs[i][k]
            o == orch[i]
        IN  (/\ p.config # <<>>
             /\ p.config[1].phase = "Execution"
             /\ NoTarget(EnvAtFirstAccess(p.env0, p.done))) =>
                /\ p.config[1].target_crash_point \in {0, USIZE_MAX}
                /\ p.hit = <<>>
                /\ p.pc = "run"
                /\ p.counter = p.calls
                /\ p.returned = p.calls
                /\ p.observed = [n \in 1..p.calls |-> n]
                /\ p.stderr = <<>>
                /\ p.status # <<>> =>
                      /\ p.status = <<Exited(0)>>
                      /\ p.done = TestFn(o) \o o.run_fn
                      /\ p.calls = NumCp(ExecCode(o))
                      /\ interpret_exit_status(p.status[1],
                                parse_crash_metadata(p.stderr)) = Success

C30_Witness ==
    \E i \in Invocations :
        /\ Len(procs[i]) = 1
        /\ procs[i][1].env0.FIRST_PHASE = <<"EXECUTION">>
        /\ procs[i][1].env0.FIRST_CRASH_TARGET = <<to_string(0)>>
        /\ procs[i][1].env.FIRST_CRASH_TARGET = <<to_string(1)>>
        /\ procs[i][1].calls = 2
        /\ procs[i][1].done[Len(procs[i][1].done)].op = "crash_point"
        /\ procs[i][1].status = <<Exited(0)>>

----------------------------------------------------------------------------
(* The CrashRecord as written to stderr, for labels, seeds and work       *)
(* directories with any characters                                          *)

LineChars == {"a", NL, Q}

LineLabels == StringsUpTo(LineChars, MaxLabelLen)

\* Values of FIRST_SEED and FIRST_WORK_DIR: unset, plain, with a newline
LineSeeds == {<<>>, <<<<"7">>>>, <<<<"7", NL>>>>}
LineDirs  == {<<>>, <<TmpDir>>, <<TmpDir \o <<NL>>>>}

InitLine ==
    /\ rt \in [stage : {"input"}, point_id : {1, MaxPointId}, label : LineLabels,
                seed : LineSeeds, work_dir : LineDirs,
                stderr : {<<>>}, parsed : {<<>>}]
    /\ orch = [i \in Invocations |-> OrchOff]
    /\ procs = [i \in Invocations |-> <<>>]
    /\ fs = {}

\* emit_crash_metadata(point_id, label) in a process with the given
\* FIRST_SEED and FIRST_WORK_DIR
LineEmit ==
    /\ rt.stage = "input"
    /\ rt' = [rt EXCEPT !.stage = "emitted",
                        !.stderr = emit_crash_metadata(rt.point_id, rt.label,
                                                       rt.seed, rt.work_dir)]
    /\ UNCHANGED <<orch, procs, fs>>

\* parse_crash_metadata on what the process wrote
LineParse ==
    /\ rt.stage = "emitted"
    /\ rt' = [rt EXCEPT !.stage = "parsed",
                        !.parsed = parse_crash_metadata(rt.stderr)]
    /\ UNCHANGED <<orch, procs, fs>>

NextLine == LineEmit \/ LineParse

SpecLine == InitLine /\ [][NextLine]_vars

\* C26: whatever the label, FIRST_SEED and FIRST_WORK_DIR are, what
\* emit_crash_metadata writes is exactly one line: it begins with
\* {"event":"crash", ends with a newline and has no other newline.
C26_SingleLineRecord ==
    rt.stage \in {"emitted", "parsed"} =>
        /\ starts_with(rt.stderr, P_EVENT)
        /\ rt.stderr[Len(rt.stderr)] = NL
        /\ \A n \in 1..(Len(rt.stderr) - 1) : rt.stderr[n] # NL
        /\ Len(lines(rt.stderr)) = 1

----------------------------------------------------------------------------
(* parse_crash_metadata on a stderr of several lines *)

MaxLines == 3

\* A line the workload wrote, a line that is not valid UTF-8, a line with
\* the prefix of a record and no point_id, and the records of two crash
\* points
NoiseLine   == <<"n", "o", "i", "s", "e", NL>>
InvalidLine == <<XFF, NL>>
Record1     == emit_crash_metadata(1, LabelA, <<>>, <<>>)
Record2     == emit_crash_metadata(2, PreLabel, <<>>, <<>>)

StderrLines == {NoiseLine, InvalidLine, BadRecord, Record1, Record2}

RECURSIVE Concat(_)
Concat(ss) == IF Len(ss) = 0 THEN <<>> ELSE ss[1] \o Concat(Tail(ss))

InitSel ==
    /\ \E ss \in StringsUpTo(StderrLines, MaxLines) :
          rt = [stage |-> "input", stderr |-> Concat(ss), parsed |-> <<>>]
    /\ orch = [i \in Invocations |-> OrchOff]
    /\ procs = [i \in Invocations |-> <<>>]
    /\ fs = {}

\* spawn_child: crash_info = stderr.and_then(parse_crash_metadata)
SelParse ==
    /\ rt.stage = "input"
    /\ rt' = [rt EXCEPT !.stage = "parsed",
                        !.parsed = parse_crash_metadata(rt.stderr)]
    /\ UNCHANGED <<orch, procs, fs>>

NextSel == SelParse

SpecSel == InitSel /\ [][NextSel]_vars

\* The lines of the stderr that begin with {"event":"crash"
Prefixed(ls) == {n \in 1..Len(ls) : starts_with(ls[n], P_EVENT)}

\* The lines that come before every line that is not valid UTF-8
Readable(ls) ==
    {n \in 1..Len(ls) : \A m \in 1..n : \A c \in 1..Len(ls[m]) : ls[m][c] # XFF}

\* The readable prefixed lines from which parse_crash_json gets a CrashInfo
Parsable(ls) ==
    {n \in Prefixed(ls) \cap Readable(ls) : parse_crash_json(ls[n]) # <<>>}

\* C27 as stated: the CrashRecord is the first line that begins with
\* {"event":"crash"; the CrashInfo is what that line gives, whatever the
\* other lines are.
C27_FirstPrefixedLine ==
    rt.stage = "parsed" =>
        LET ls == lines(rt.stderr)
        IN  rt.parsed = (IF Prefixed(ls) = {} THEN <<>>
                         ELSE parse_crash_json(ls[Min(Prefixed(ls))]))

\* C27 as amended: the CrashRecord is the first line that begins with
\* {"event":"crash" and has a point_id that parses, among the lines that come
\* before any line that is not valid UTF-8; lines before it, with the prefix
\* or without, and all lines after it are ignored; without such a line there
\* is no CrashRecord.
C27_FirstParsableLine ==
    rt.stage = "parsed" =>
        LET ls == lines(rt.stderr)
        IN  /\ (rt.parsed = <<>>) <=> (Parsable(ls) = {})
            /\ rt.parsed # <<>> =>
                  \E n \in Parsable(ls) :
                      /\ \A m \in Parsable(ls) : n <= m
                      /\ rt.parsed = parse_crash_json(ls[n])

C27_Witness ==
    /\ rt.stage = "parsed"
    /\ rt.stderr = BadRecord \o Record2 \o Record1
    /\ rt.parsed = <<CrashInfo(2, PreLabel)>>


----------------------------------------------------------------------------
(* Termination of the orchestrator loop *)

\* Workloads that make up to MaxSteps crash_point calls and then return,
\* fail, or end by a kill of their own
TermWorkloads ==
    LET bodies == StringsUpTo({CP(LabelA)}, MaxSteps)
    IN  bodies \cup {Append(b, DIE(st)) :
                        b \in {c \in bodies : Len(c) < MaxSteps}, st \in DieStatuses}

\* A verifier that returns and one that panics
TermVerifiers == {<<>>, <<DIE(PANIC_EXIT_CODE)>>}

InitTerm ==
    /\ \E w \in TermWorkloads, v \in TermVerifiers, pre \in 0..MaxPre :
          LET a == Started(PidA, pre, w, v, EnvVars(<<>>, <<>>, <<>>, <<>>, <<>>, <<>>, <<>>))
          IN  /\ orch = [i \in Invocations |-> IF i = "A" THEN a.o ELSE OrchOff]
              /\ procs = [i \in Invocations |-> IF i = "A" THEN a.ps ELSE <<>>]
    /\ fs = {}
    /\ rt = RtIdle

TermProcStep(i, k) ==
    \/ DoCrashPoint(i, k)
    \/ Emit(i, k)
    \/ TriggerCrash(i, k)
    \/ DoDie(i, k)
    \/ DoExecute(i, k)
    \/ DoReturn(i, k)

NextTerm ==
    \E i \in Invocations :
        \/ \E k \in DOMAIN procs[i] : TermProcStep(i, k)
        \/ OrchStep(i)

\* WaitExec can be taken: the stderr of the child is at its end and wait()
\* returns once the child has exited; the match has an arm for every result
WaitExecEnabled(i) ==
    /\ orch[i].pc = "wait_exec"
    /\ procs[i][Len(procs[i])].status # <<>>

\* The steps of NextTerm other than WaitExec
TermOtherStep ==
    \E i \in Invocations :
        \/ \E k \in DOMAIN procs[i] : TermProcStep(i, k)
        \/ RunInit(i)
        \/ CreateLeaf(i)
        \/ SpawnExec(i)
        \/ SpawnVerify(i)
        \/ WaitVerify(i)

\* Some step of NextTerm can be taken
CanStepTerm ==
    \/ ENABLED <<TermOtherStep>>_vars
    \/ \E i \in Invocations : WaitExecEnabled(i)

\* Weak fairness of NextTerm: a process that can take a step is scheduled in
\* the end, so a child that has been spawned runs to its exit and the
\* orchestrator goes on when the child it waits for has exited
FairTerm == []<>(~CanStepTerm) \/ []<><<NextTerm>>_vars

SpecTerm == InitTerm /\ [][NextTerm]_vars /\ FairTerm

\* The Execution children spawned so far
ExecSpawns(i) == {k \in Children(i) : IsExec(procs[i][k])}

\* K: the crash_point calls an Execution child makes when it is not killed
CrashPointCalls(i) == NumCp(ExecCode(orch[i]))

\* The loop of run has ended: run returned, or the process exited with 1
Terminated(i) == orch[i].pc \in {"returned", "exit1"}

\* The workload ends by SIGKILL or exit code 137 outside crash_point
SelfKill(code) ==
    \E k \in 1..Len(code) :
        code[k].op = "die" /\ code[k].st \in {SIGKILL_EXIT_CODE, 0 - SIGKILL}

\* C28 as stated: with a workload that makes K crash_point calls the
\* orchestrator spawns at most K+1 Execution children.
C28_AtMostKPlus1Spawns ==
    \A i \in Invocations :
        orch[i].pc # "off" => Cardinality(ExecSpawns(i)) <= CrashPointCalls(i) + 1

\* C28 as amended: when the Execution child makes K crash_point calls and
\* does not end by SIGKILL or exit code 137 outside crash_point, and every
\* child exits, the loop ends (run returns or the process exits with 1)
\* after at most K+1 Execution spawns; run returns only after an Execution
\* child, the last child spawned, has exited with code 0.
C28_Termination ==
    /\ [](\A i \in Invocations :
            orch[i].pc # "off" /\ ~SelfKill(orch[i].run_fn)
                => Cardinality(ExecSpawns(i)) <= CrashPointCalls(i) + 1)
    /\ [](\A i \in Invocations :
            orch[i].pc = "returned"
                => /\ ExecSpawns(i) # {}
                   /\ Len(procs[i]) \in ExecSpawns(i)
                   /\ procs[i][Len(procs[i])].status = <<Exited(0)>>)
    /\ \A i \in Invocations :
            (orch[i].pc # "off" /\ ~SelfKill(orch[i].run_fn)) ~> Terminated(i)

\* Two crash points: three Execution children, the third exits normally and
\* run returns
C28_Witness ==
    /\ orch["A"].pc = "returned"
    /\ orch["A"].pre = 0
    /\ orch["A"].run_fn = <<CP(LabelA), CP(LabelA)>>
    /\ Cardinality(ExecSpawns("A")) = 3
    /\ procs["A"][Len(procs["A"])].status = <<Exited(0)>>


----------------------------------------------------------------------------
(* An interrupt signal for the orchestrator process *)

\* run and spawn_child install no signal handler and keep no record of the
\* child outside the local variable child.  SIGINT has its default action:
\* the orchestrator process ends at once, wherever the loop is.  The signal
\* is not passed on, the child is neither killed nor waited for.
Interrupt(i) ==
    /\ orch[i].pc \in {"init", "create", "spawn_exec", "wait_exec",
                       "spawn_verify", "wait_verify"}
    /\ procs[i][1].status = <<>>
    /\ orch' = [orch EXCEPT ![i].pc = "interrupted"]
    /\ procs' = [procs EXCEPT ![i][1].status = <<Signaled(SIGINT)>>]
    /\ UNCHANGED <<fs, rt>>

NextInt ==
    \E i \in Invocations :
        \/ \E k \in DOMAIN procs[i] : TermProcStep(i, k)
        \/ OrchStep(i)
        \/ Interrupt(i)

SpecInt == InitTerm /\ [][NextInt]_vars

\* C29: once the orchestrator process has exited on an interrupt signal, no
\* child of it is left running.
C29_NoChildLeftRunning ==
    \A i \in Invocations :
        procs[i] # <<>> /\ procs[i][1].status = <<Signaled(SIGINT)>>
            => Alive(i) = {}


----------------------------------------------------------------------------
(* The filesystem effects of the orchestrator *)

\* The leaf of the target the orchestrator of invocation i is at
CurrentLeaf(i) == leaf(orch[i].base_dir, orch[i].target)

\* The entries of f outside the directory p
Outside(f, p) == {e \in f : ~starts_with_path(e.path, p)}

\* A step of the orchestrator of invocation i: create_dir_all of the current
\* leaf (the leaf and the ancestors that are missing come to exist, as
\* directories), remove_dir_all of the current leaf, or no change
OrchFsEffect(i) ==
    \/ fs' = fs
    \/ /\ fs \subseteq fs'
       /\ IsDir(fs', CurrentLeaf(i))
       /\ \A e \in fs' \ fs : e.kind = "dir" /\ e.path \in Ancestors(CurrentLeaf(i))
    \/ /\ Exists(fs, CurrentLeaf(i))
       /\ fs' = Outside(fs, CurrentLeaf(i))

\* C31: a step of the orchestrator changes the filesystem only by creating
\* the run_<target> directory under its base directory (with its missing
\* ancestors) or by removing that directory; what lies outside the leaf,
\* the base directory and what the children wrote directly under it
\* included, stays as it is, also in the step that ends a successful run;
\* and when run has returned the leaf of the last Execution is gone, with
\* FIRST_KEEP_ARTIFACTS set or not.
C31_OrchestratorFilesystemFrame ==
    /\ [](\A i \in Invocations :
            orch[i].pc = "returned"
                => /\ ~Exists(fs, CurrentLeaf(i))
                   /\ IsDir(fs, orch[i].base_dir))
    /\ [][\A i \in Invocations :
            orch'[i] # orch[i]
                => /\ OrchFsEffect(i)
                   /\ Outside(fs, CurrentLeaf(i)) \subseteq fs']_vars

\* A run with one crash point and FIRST_KEEP_ARTIFACTS set has returned: the
\* leaf run_1 was kept, the leaf run_2 of the last Execution is gone, the
\* base directory and the file the workload wrote under it are there
C31_Witness ==
    /\ orch["A"].pc = "returned"
    /\ orch["A"].target = 2
    /\ procs["A"][1].env.FIRST_KEEP_ARTIFACTS # <<>>
    /\ orch["A"].run_fn = <<WRITE(NameF), CP(LabelA)>>
    /\ IsDir(fs, leaf(orch["A"].base_dir, 1))
    /\ ~Exists(fs, leaf(orch["A"].base_dir, 2))
    /\ IsDir(fs, orch["A"].base_dir)
    /\ Exists(fs, join(orch["A"].base_dir, NameF))


----------------------------------------------------------------------------
(* A test function that calls execute() twice *)

\* A test function that makes pre crash_point calls and then builds and
\* executes two tests, one after the other, each with the workload run_fn
TwiceFn(pre) == [k \in 1..pre |-> CP(PreLabel)] \o <<EXECUTE, EXECUTE>>

\* Everything the process runs when no crash point kills it
TwiceCode(o) == [k \in 1..o.pre |-> CP(PreLabel)] \o o.run_fn \o o.run_fn

TwiceWorkloads == StringsUpTo({CP(LabelA), CP(LabelQ)}, MaxSteps)

\* The test binary started as an Execution process for one of the targets
InitTwice ==
    /\ \E w \in TwiceWorkloads, pre \in 0..MaxPre, t \in 1..MaxTarget :
          LET o   == OrchRecord("off", PidA, pre, w, <<>>)
              env == ExecEnv(EnvVars(<<>>, <<>>, <<>>, <<>>, <<>>, <<>>, <<>>),
                             t, base_dir(PidA, <<"a", "-", "1">>))
          IN  /\ orch = [i \in Invocations |-> IF i = "A" THEN o ELSE OrchOff]
              /\ procs = [i \in Invocations |->
                            IF i = "A" THEN <<Process(env, TwiceFn(pre))>> ELSE <<>>]
    /\ fs = {}
    /\ rt = RtIdle

NextTwice ==
    \E i \in Invocations : \E k \in ProcIds :
        \/ DoCrashPoint(i, k)
        \/ Emit(i, k)
        \/ TriggerCrash(i, k)
        \/ DoExecute(i, k)
        \/ DoReturn(i, k)

SpecTwice == InitTwice /\ [][NextTwice]_vars

\* The execute() calls the process has made
ExecuteCalls(p) == Cardinality({n \in 1..Len(p.done) : p.done[n].op = "execute"})

\* C32: in an Execution process whose test function calls execute() twice,
\* the k-th crash_point call of the process observes k, through both
\* workloads; the crash fires in the call whose number is the target, in
\* the second workload when the target is beyond the first; the second
\* execute() runs its workload like the first, and a process that is not
\* killed makes every call of both workloads and exits with 0.
C32_CounterSharedAcrossExecutes ==
    LET p == procs["A"][1]
        o == orch["A"]
        t == runtime_uncached(p).target_crash_point
    IN  /\ p.observed = [n \in 1..p.calls |-> n]
        /\ p.counter = p.calls
        /\ p.calls <= t
        /\ p.hit # <<>> <=> p.calls = t
        /\ p.hit # <<>> => p.hit[1] = CrashInfo(t, NthLabel(TwiceCode(o), t)[1])
        /\ p.status # <<>> =>
              \/ p.hit # <<>> /\ Killed(p.status)
              \/ /\ p.hit = <<>>
                 /\ p.status = <<Exited(0)>>
                 /\ ExecuteCalls(p) = 2
                 /\ p.calls = NumCp(TwiceCode(o))

\* The process was killed in the second workload: it had made every call of
\* the first workload, called execute() again and went on counting
C32_Witness ==
    LET p == procs["A"][1]
        o == orch["A"]
    IN  /\ NumCp(o.run_fn) = 2
        /\ ExecuteCalls(p) = 2
        /\ Killed(p.status)
        /\ p.hit # <<>>
        /\ p.hit[1].point_id = o.pre + NumCp(o.run_fn) + 1
        /\ p.observed = [n \in 1..(o.pre + NumCp(o.run_fn) + 1) |-> n]

====
